---- MODULE Spec2Model ----
(***************************************************************************)
(* Session / credential lifecycle of the admin backend:                    *)
(*   app/services/auth_service.py   AuthService (login, refresh)           *)
(*   app/api/deps.py                get_current_user                       *)
(*   app/api/v1/endpoints/auth.py   logout endpoint                        *)
(*   app/services/session_service.py SessionService.kick_user              *)
(*   app/core/token_store.py        MemoryRefreshTokenStore                *)
(*   app/core/session_store.py      MemorySessionStore                     *)
(* Requests are handled by concurrent handlers (Procs); a handler is split *)
(* into steps at the awaits of its code.  Time is an integer clock.        *)
(***************************************************************************)
EXTENDS Integers, FiniteSets, Sequences, TLC

(* ---------------- bounds of the model ---------------- *)
\* lifetime of an access token in clock ticks (ACCESS_TOKEN_EXPIRE_MINUTES, scaled)
AccessTTL == 2
\* lifetime of a refresh token in clock ticks (REFRESH_TOKEN_EXPIRE_DAYS, scaled)
RefreshTTL == 3
\* last instant of the clock
MaxTime == RefreshTTL
\* number of tokens the server issues in one behaviour
MaxIssued == 3
\* last instant of the clock where only the session registry is exercised
StoreMaxTime == 2

(* ---------------- principals ---------------- *)
UserIds == {"admin", "u1", "u2"}
\* a subject string that is no UUID
BadUuid == "not-a-uuid"
NoSub == "none"
\* only this principal is changed by the user-management collaborator
Managed == {"u1"}

Username(u) == IF u = "admin" THEN "admin" ELSE IF u = "u1" THEN "alice" ELSE "bob"
Phone(u) ==
    IF u = "admin" THEN "13800138000" ELSE IF u = "u1" THEN "13800138001" ELSE "13800138002"
IsSuperuser(u) == u = "admin"
LoginNames == {"admin", "alice", "13800138001", "nobody"}
Passwords == {"good", "bad"}

\* request handlers: one for the sequential scenarios, two for the races
Handlers == {"h1"}
Procs == {"h1", "h2"}

(* ---------------- tokens ---------------- *)
\* ok: the string is a well-formed JWT whose HS256 signature verifies
NoToken == [ok |-> FALSE, type |-> "absent", sub |-> NoSub, iat |-> 0, exp |-> 0, jti |-> 0]
Garbage == [ok |-> FALSE, type |-> "garbage", sub |-> NoSub, iat |-> 0, exp |-> 0, jti |-> 0]
Tamper(t) == [t EXCEPT !.ok = FALSE]
\* signed tokens the server never issues but accepts the signature of
Crafted ==
    { [ok |-> TRUE, type |-> "refresh", sub |-> s, iat |-> 0, exp |-> MaxTime + 1, jti |-> 0]
        : s \in {NoSub, BadUuid} }

VARIABLES
    now,          \* time.time() / datetime.now()
    users,        \* rows of sys_user: id -> [exists, is_active, is_deleted]
    issued,       \* every token the server has signed and returned
    nextJti,      \* source of fresh refresh-token identifiers
    rbac,         \* the committed roles and menus (version: number of committed changes)
                  \* and the cached permission sets v1:user:permissions:{user_id}
    bus,          \* event_bus: the subscriptions and the tasks publish has created
    refreshStore, \* MemoryRefreshTokenStore._data: user_id -> (jti, expire_at)
    accessCutoff, \* per-user cutoff recorded by revoke_user_access_now
    sessions,     \* MemorySessionStore._data: user_id -> (session, expire_at); with
                  \* Redis, the keys v1:auth:session:{user_id} and their expiry
    redis,        \* cache.redis_client: whether it is configured, and the sorted set
                  \* v1:auth:online:zset (user_id -> last_seen score) with its expiry
    revoker,      \* history: the operation that last revoked each user
    pc,           \* position of each request handler
    req,          \* the request a handler is working on
    loc,          \* local variables of a handler across its awaits
    resp          \* the response a handler produced for its request, with the
                  \* create_login_log task it added to the request's BackgroundTasks

vars == <<now, users, issued, nextJti, rbac, bus, refreshStore, accessCutoff, sessions, redis,
          revoker, pc, req, loc, resp>>

stores == <<refreshStore, accessCutoff, sessions, redis>>

(* ---------------- values ---------------- *)
NoRow == [exists |-> FALSE, is_active |-> FALSE, is_deleted |-> FALSE]
LiveRow == [exists |-> TRUE, is_active |-> TRUE, is_deleted |-> FALSE]

\* jti 0: no entry; refresh tokens carry jti >= 1
NoEntry == [jti |-> 0, expire_at |-> 0]
\* _REVOKED_JTI = "__revoked__"
REVOKED_JTI == -1
NoCutoff == -1
\* pos: rank of the key in the insertion order of the dict (0: not in the dict)
NoSession ==
    [present |-> FALSE, login_at |-> 0, last_seen_at |-> 0, expire_at |-> 0, pos |-> 0]
\* score of a user that is not a member of the sorted set
NoScore == -1
\* redis_client is None (the in-process stores are used); no sorted set
\* down: the commands sent to the Redis server raise (connection lost, timeout)
NoRedis ==
    [client |-> FALSE, zscore |-> [u \in UserIds |-> NoScore], zexpire_at |-> 0,
     down |-> FALSE]

\* no cached permission set of a user
NoPerms == [cached |-> FALSE, version |-> 0, epoch |-> 0]
\* the roles and menus as created by initial_data, nothing cached; epoch: the number
\* of invalidations of the permission cache that have run
NoRbac == [version |-> 0, epoch |-> 0, cache |-> [u \in UserIds |-> NoPerms]]

\* the classes of events: OperationLogEvent is a subclass of Event
EventTypes == {"Event", "OperationLogEvent"}
\* EventBus.__init__: no subscription; no event published, no task created
NoBus == [handlers |-> [t \in EventTypes |-> <<>>], tasks |-> <<>>, published |-> 0]

\* ttl_seconds=None and login_at=None of touch_online_session
NoTtl == -1
NoLoginAt == -1
\* target: the user_id argument; targets: the user_ids of a batch; jti, ttl, login_at,
\* page, page_size: the arguments of the store operation called
\* csrf, max_age, subject: the arguments of the functions of auth_cookies.py; a string
\* is the sequence of the parts that the dots of the string separate
\* found, duplicate, removed: what the role / menu queries of a mutation find in the
\* database: the row of the id, another row with the code, the row the removal returns
NoMaxAge == -1
NoSubject == <<>>
NoReq ==
    [op |-> "none", tok |-> NoToken, username |-> "", password |-> "", target |-> NoSub,
     targets |-> <<>>, jti |-> 0, ttl |-> NoTtl, login_at |-> NoLoginAt,
     page |-> 1, page_size |-> 20, csrf |-> <<>>, max_age |-> NoMaxAge,
     subject |-> NoSubject, found |-> TRUE, duplicate |-> FALSE, removed |-> TRUE]
\* sub: the authenticated / decoded subject; at: the instant the token was decoded;
\* db_reads: principal lookups made so far by this request
\* existing: login_at of the session get_session returned to touch_online_session
\* started: the clock upsert_session read; raised: a Redis command of the call raised;
\* total, range, items: zcard, zrevrange and the sessions collected by list_online
\* tasks: the length of _post_commit_tasks of the service of this request; version: the
\* roles and menus this request has committed or read; valid_status: the rows the
\* query of SessionService.list_online returned (NoRow: no row of that id)
NoLoc ==
    [sub |-> NoSub, at |-> 0, db_reads |-> 0, existing |-> NoLoginAt, started |-> 0,
     raised |-> FALSE, total |-> 0, range |-> <<>>, items |-> <<>>,
     tasks |-> 0, version |-> 0, valid_status |-> [u \in UserIds |-> NoRow]]
NoLog == [user_id |-> NoSub, username |-> "", status |-> FALSE, added |-> FALSE]
\* raced: another handler was between the decode and the principal lookup of a
\* Refresh of the same token when this response was produced
\* the value a store or service call returned: a page of sessions with the total,
\* or the success count and the failed ids of a batch
\* jti: the value get_user_refresh_jti returned (0: None)
\* csrf: the token generate_csrf_token returned; valid: what validate_csrf_token returned
\* hit: the permission check was answered from the cache; perms: the permission set
\* it was answered with
NoResult ==
    [items |-> <<>>, total |-> -1, success |-> -1, failed |-> <<>>, jti |-> 0,
     csrf |-> <<>>, valid |-> FALSE, hit |-> FALSE, perms |-> NoPerms]
\* again: a revocation or removal found the user already revoked and without a session
\* raised: a Redis command of the call raised; code 500: the exception reached the caller
NoResp == [code |-> 0, at |-> 0, access_token |-> NoToken, refresh_token |-> NoToken,
           log |-> NoLog, db_reads |-> 0, raced |-> FALSE, result |-> NoResult,
           again |-> FALSE, raised |-> FALSE]

Response(code, at, access, refresh, log, reads) ==
    [code |-> code, at |-> at, access_token |-> access, refresh_token |-> refresh,
     log |-> log, db_reads |-> reads, raced |-> FALSE, result |-> NoResult,
     again |-> FALSE, raised |-> FALSE]

Init ==
    /\ now = 0
    /\ users = [u \in UserIds |-> LiveRow]
    /\ issued = {}
    /\ nextJti = 1
    /\ rbac = NoRbac
    /\ bus = NoBus
    /\ refreshStore = [u \in UserIds |-> NoEntry]
    /\ accessCutoff = [u \in UserIds |-> NoCutoff]
    /\ sessions = [u \in UserIds |-> NoSession]
    /\ redis = NoRedis
    /\ revoker = [u \in UserIds |-> "none"]
    /\ pc = [p \in Procs |-> "idle"]
    /\ req = [p \in Procs |-> NoReq]
    /\ loc = [p \in Procs |-> NoLoc]
    /\ resp = [p \in Procs |-> NoResp]

(* ---------------- environment ---------------- *)
\* the clock advances
Tick ==
    /\ now < MaxTime
    /\ now' = now + 1
    /\ UNCHANGED <<users, issued, nextJti, rbac, bus, refreshStore, accessCutoff, sessions, redis,
                   revoker, pc, req, loc, resp>>

\* UserService.update_user with is_active set (PUT /users/{id})
UpdateUserActive(u, b) ==
    /\ users[u].exists
    /\ users[u].is_active # b
    /\ users' = [users EXCEPT ![u].is_active = b]
    /\ UNCHANGED <<now, issued, nextJti, rbac, bus, refreshStore, accessCutoff, sessions, redis,
                   revoker, pc, req, loc, resp>>

\* UserService.batch_delete_users(hard_delete=False): the row goes to the recycle bin
SoftDeleteUser(u) ==
    /\ users[u].exists
    /\ ~users[u].is_deleted
    /\ users' = [users EXCEPT ![u].is_deleted = TRUE]
    /\ UNCHANGED <<now, issued, nextJti, rbac, bus, refreshStore, accessCutoff, sessions, redis,
                   revoker, pc, req, loc, resp>>

\* UserService.restore_user: the row leaves the recycle bin
RestoreUser(u) ==
    /\ users[u].exists
    /\ users[u].is_deleted
    /\ users' = [users EXCEPT ![u].is_deleted = FALSE]
    /\ UNCHANGED <<now, issued, nextJti, rbac, bus, refreshStore, accessCutoff, sessions, redis,
                   revoker, pc, req, loc, resp>>

\* CRUDBase.remove: the row is deleted for good
HardDeleteUser(u) ==
    /\ users[u].exists
    /\ users' = [users EXCEPT ![u] = NoRow]
    /\ UNCHANGED <<now, issued, nextJti, rbac, bus, refreshStore, accessCutoff, sessions, redis,
                   revoker, pc, req, loc, resp>>

(* ---------------- principal repository ---------------- *)
\* CRUDBase.get: select ... where id == id (no is_deleted filter)
Get(id) == IF id \in UserIds /\ users[id].exists THEN users[id] ELSE NoRow

\* CRUDUser.get_by_username: rows with that username that are not soft-deleted
GetByUsername(name) ==
    {u \in UserIds : users[u].exists /\ Username(u) = name /\ ~users[u].is_deleted}

\* CRUDUser.get_by_phone: rows with that phone that are not soft-deleted
GetByPhone(name) ==
    {u \in UserIds : users[u].exists /\ Phone(u) = name /\ ~users[u].is_deleted}

\* security.verify_password(plain, hash)
VerifyPassword(password, u) == password = "good"

\* an authentication that does not verify the password
AuthenticateAnyPassword(username, password) ==
    LET byName == GetByUsername(username)
        found == IF byName # {} THEN byName ELSE GetByPhone(username)
    IN {u \in found : users[u].is_active /\ ~users[u].is_deleted}

\* AuthService.authenticate: the set holding the authenticated user, or {}
Authenticate(username, password) ==
    LET byName == GetByUsername(username)
        found == IF byName # {} THEN byName ELSE GetByPhone(username)
    IN {u \in found : /\ users[u].is_active
                      /\ ~users[u].is_deleted
                      /\ VerifyPassword(password, u)}

(* ---------------- credential codec ---------------- *)
\* a decode that verifies the signature but not the expiry
JwtDecodeNoExpiry(tok, t) == tok.ok

\* jwt.decode(token, SECRET_KEY, algorithms=["HS256"]) at time t: TRUE iff it returns
\* the payload (well-formed, signature verifies, exp not reached)
JwtDecode(tok, t) == tok.ok /\ tok.exp > t

\* security.create_access_token(subject, expires_delta)
CreateAccessToken(sub, t) ==
    [ok |-> TRUE, type |-> "access", sub |-> sub, iat |-> t, exp |-> t + AccessTTL, jti |-> 0]

\* security.create_refresh_token(subject)
CreateRefreshToken(sub, t, jti) ==
    [ok |-> TRUE, type |-> "refresh", sub |-> sub, iat |-> t, exp |-> t + RefreshTTL, jti |-> jti]

(* ---------------- requests ---------------- *)
RefreshInputs ==
    issued \cup {Tamper(t) : t \in {x \in issued : x.type = "refresh"}}
           \cup Crafted \cup {Garbage}

\* the Authorization header of a protected endpoint; NoToken: no header
BearerInputs ==
    issued \cup {Tamper(t) : t \in {x \in issued : x.type = "access"}}
           \cup {Garbage, NoToken}

\* longest list of ids of a batch kick
MaxKickList == 3
\* the user_ids of a batch kick: lists with duplicates, the empty list included
KickLists == UNION {[1..n -> {"u1", "u2"}] : n \in 0..MaxKickList}

\* arguments of the direct calls of the store functions
TouchTtls == {NoTtl, 1}
TouchLoginAts == {NoLoginAt, 0}
Pages == {0, 2}
PageSizes == {0, 1, 500}

StoreRequests ==
    {[NoReq EXCEPT !.op = "touch", !.target = u, !.ttl = l, !.login_at = a]
        : u \in {"u1", "u2"}, l \in TouchTtls, a \in TouchLoginAts}
    \cup {[NoReq EXCEPT !.op = "touch", !.target = "admin"]}
    \cup {[NoReq EXCEPT !.op = "list", !.page = g, !.page_size = z]
            : g \in Pages, z \in PageSizes}
    \cup {[NoReq EXCEPT !.op = o, !.target = u] : o \in {"remove", "revoke"}, u \in UserIds}
    \cup {[NoReq EXCEPT !.op = "set_jti", !.target = u, !.jti = 1, !.ttl = RefreshTTL]
            : u \in UserIds}

LoginRequests ==
    {[NoReq EXCEPT !.op = "login", !.username = n, !.password = w]
        : n \in LoginNames, w \in Passwords}

RefreshRequests == {[NoReq EXCEPT !.op = "refresh", !.tok = t] : t \in RefreshInputs}

ProtectedRequests ==
    {[NoReq EXCEPT !.op = o, !.tok = t] : o \in {"logout", "me"}, t \in BearerInputs}
    \cup {[NoReq EXCEPT !.op = "kick", !.tok = t, !.target = g]
            : t \in BearerInputs, g \in Managed}
    \cup {[NoReq EXCEPT !.op = "kicks", !.tok = t, !.targets = q]
            : t \in BearerInputs, q \in KickLists}

\* the requests of the ordinary user; the administrator acts in SpecKick
Requests ==
    {r \in LoginRequests : r.username # "admin"}
    \cup RefreshRequests
    \cup {r \in ProtectedRequests : r.op # "kick"}

\* tokens a request can sign: a login whose password does not verify signs none
Cost(r) ==
    IF r.op = "login" THEN (IF r.password = "good" THEN 2 ELSE 0)
    ELSE IF r.op = "refresh" THEN 1 ELSE 0

\* the request keeps the number of issued tokens within n
Within(n, r) == Cardinality(issued) + Cost(r) <= n

\* operations of the stores that a collaborator calls directly
StoreOps == {"touch", "list", "remove", "revoke", "set_jti"}

FirstStep(op) ==
    IF op = "login" THEN "login"
    ELSE IF op = "refresh" THEN "refresh_decode"
    ELSE IF op = "touch" THEN "touch_get"
    ELSE IF op \in StoreOps THEN op
    ELSE "auth"

\* a request arrives at an idle handler; n bounds the tokens issued in a behaviour
Request(p, r, n) ==
    /\ pc[p] = "idle"
    /\ Within(n, r)
    /\ pc' = [pc EXCEPT ![p] = FirstStep(r.op)]
    /\ req' = [req EXCEPT ![p] = r]
    /\ loc' = [loc EXCEPT ![p] = [NoLoc EXCEPT !.at = now]]
    /\ resp' = [resp EXCEPT ![p] = NoResp]
    /\ UNCHANGED <<now, users, issued, nextJti, rbac, bus, refreshStore, accessCutoff, sessions, redis, revoker>>

(* ---------------- AuthService.login_access_token ---------------- *)
\* a failure entry that drops the submitted username
FailedLoginLogBlank(username) ==
    [user_id |-> NoSub, username |-> "", status |-> FALSE, added |-> TRUE]

\* the create_login_log task the failure branch hands to background_tasks.add_task
FailedLoginLog(username) ==
    [user_id |-> NoSub, username |-> username, status |-> FALSE, added |-> TRUE]

\* the create_login_log task of the success branch
SuccessLoginLog(u) ==
    [user_id |-> u, username |-> Username(u), status |-> TRUE, added |-> TRUE]

\* the status code of CustomException(code=400, ...) raised by the failure branch
LoginFailureCode == 400

LoginAccessToken(p) ==
    /\ pc[p] = "login"
    /\ LET auth == Authenticate(req[p].username, req[p].password) IN
       IF auth = {}
       THEN /\ resp' = [resp EXCEPT ![p] =
                          Response(LoginFailureCode, now, NoToken, NoToken,
                                   FailedLoginLog(req[p].username), 0)]
            /\ UNCHANGED <<issued, nextJti>>
       ELSE LET u == CHOOSE x \in auth : TRUE
                access == CreateAccessToken(u, now)
                refresh == CreateRefreshToken(u, now, nextJti)
            IN /\ issued' = issued \cup {access, refresh}
               /\ nextJti' = nextJti + 1
               /\ resp' = [resp EXCEPT ![p] =
                             Response(200, now, access, refresh, SuccessLoginLog(u), 0)]
    /\ pc' = [pc EXCEPT ![p] = "idle"]
    /\ UNCHANGED <<now, users, rbac, bus, refreshStore, accessCutoff, sessions, redis, revoker,
                   req, loc>>

(* ---------------- AuthService.refresh_token ---------------- *)
\* the checks without the comparison of the token kind
RefreshTokenChecksAnyKind(tok, t) ==
    /\ JwtDecode(tok, t)
    /\ tok.sub # NoSub
    /\ tok.sub # BadUuid

\* lines 90-107: decode, kind, subject, UUID format; TRUE iff no exception is raised
RefreshTokenChecks(tok, t) ==
    /\ JwtDecode(tok, t)
    /\ tok.type = "refresh"
    /\ tok.sub # NoSub
    /\ tok.sub # BadUuid

RefreshDecode(p) ==
    /\ pc[p] = "refresh_decode"
    /\ IF RefreshTokenChecks(req[p].tok, now)
       THEN /\ pc' = [pc EXCEPT ![p] = "refresh_get"]
            /\ loc' = [loc EXCEPT ![p].sub = req[p].tok.sub, ![p].at = now]
            /\ UNCHANGED resp
       ELSE /\ pc' = [pc EXCEPT ![p] = "idle"]
            /\ resp' = [resp EXCEPT ![p] = Response(401, now, NoToken, NoToken, NoLog, 0)]
            /\ loc' = [loc EXCEPT ![p] = NoLoc]
    /\ UNCHANGED <<now, users, issued, nextJti, rbac, bus, refreshStore, accessCutoff, sessions, redis,
                   revoker, req>>

\* another handler is inside a Refresh of the token handler p is refreshing
RacingRefresh(p) ==
    \E q \in Procs \ {p} : pc[q] = "refresh_get" /\ req[q].tok = req[p].tok

\* lines 109-111: the principal check after user_crud.get
RefreshUserOk(row) == row.exists /\ row.is_active

\* lines 109-123: the principal lookup returns and the new access token is signed
RefreshIssue(p) ==
    /\ pc[p] = "refresh_get"
    /\ LET row == Get(loc[p].sub)
           reads == loc[p].db_reads + 1
       IN /\ loc' = [loc EXCEPT ![p] = NoLoc]
          /\ IF RefreshUserOk(row)
             THEN LET access == CreateAccessToken(loc[p].sub, now)
                  IN /\ issued' = issued \cup {access}
                     /\ resp' = [resp EXCEPT ![p] =
                          [Response(200, loc[p].at, access, req[p].tok, NoLog, reads)
                             EXCEPT !.raced = RacingRefresh(p)]]
             ELSE /\ resp' = [resp EXCEPT ![p] =
                          [Response(401, loc[p].at, NoToken, NoToken, NoLog, reads)
                             EXCEPT !.raced = RacingRefresh(p)]]
                  /\ UNCHANGED issued
    /\ pc' = [pc EXCEPT ![p] = "idle"]
    /\ UNCHANGED <<now, users, nextJti, rbac, bus, refreshStore, accessCutoff, sessions, redis, revoker, req>>

(* ---------------- get_current_user ---------------- *)
\* an authentication that reads the payload without verifying signature and expiry
GetCurrentUserCodeUnverified(tok, t) ==
    IF tok = NoToken THEN 401
    ELSE IF tok.sub = NoSub THEN 401
    ELSE IF ~Get(tok.sub).exists THEN 404
    ELSE IF ~Get(tok.sub).is_active THEN 403
    ELSE 200

\* the status deps.get_current_user answers a bearer token with at time t
\* (200: the user is bound to the request)
GetCurrentUserCode(tok, t) ==
    IF tok = NoToken THEN 401
    ELSE IF ~JwtDecode(tok, t) THEN 401
    ELSE IF tok.sub = NoSub THEN 401
    ELSE IF ~Get(tok.sub).exists THEN 404
    ELSE IF ~Get(tok.sub).is_active THEN 403
    ELSE 200

\* deps.require_permissions of the kick route: superusers hold every permission
RequirePermissions(u) == IsSuperuser(u)

GetCurrentUser(p) ==
    /\ pc[p] = "auth"
    /\ LET code == GetCurrentUserCode(req[p].tok, now)
           denied == req[p].op \in {"kick", "kicks"} /\ ~RequirePermissions(req[p].tok.sub)
       IN IF code = 200 /\ ~denied
          THEN /\ pc' = [pc EXCEPT ![p] = req[p].op]
               /\ loc' = [loc EXCEPT ![p].sub = req[p].tok.sub, ![p].at = now,
                                     ![p].db_reads = 1]
               /\ UNCHANGED resp
          ELSE /\ pc' = [pc EXCEPT ![p] = "idle"]
               /\ resp' = [resp EXCEPT ![p] =
                     Response(IF code = 200 THEN 403 ELSE code, now, NoToken, NoToken, NoLog, 0)]
               /\ loc' = [loc EXCEPT ![p] = NoLoc]
    /\ UNCHANGED <<now, users, issued, nextJti, rbac, bus, refreshStore, accessCutoff, sessions, redis,
                   revoker, req>>

\* POST /auth/test-token: a protected endpoint without side effects
TestToken(p) ==
    /\ pc[p] = "me"
    /\ pc' = [pc EXCEPT ![p] = "idle"]
    /\ resp' = [resp EXCEPT ![p] = Response(200, loc[p].at, NoToken, NoToken, NoLog, 1)]
    /\ loc' = [loc EXCEPT ![p] = NoLoc]
    /\ UNCHANGED <<now, users, issued, nextJti, rbac, bus, refreshStore, accessCutoff, sessions, redis,
                   revoker, req>>

(* ---------------- token store and session store ---------------- *)
\* a lifetime of the sentinel one tick short of the lifetime of a refresh token
DefaultTtlSecondsShort == RefreshTTL - 1

\* _default_ttl_seconds() of token_store.py: REFRESH_TOKEN_EXPIRE_DAYS * 24 * 3600
DefaultTtlSeconds == RefreshTTL

\* a revocation that keeps an entry that is already stored
RevokeUserIfAbsent(store, u, t) ==
    IF store[u].jti # 0 THEN store
    ELSE [store EXCEPT ![u] =
            [jti |-> REVOKED_JTI,
             expire_at |-> t + (IF DefaultTtlSeconds > 1 THEN DefaultTtlSeconds ELSE 1)]]

\* MemoryRefreshTokenStore.revoke_user at time t
RevokeUser(store, u, t) ==
    [store EXCEPT ![u] =
        [jti |-> REVOKED_JTI,
         expire_at |-> t + (IF DefaultTtlSeconds > 1 THEN DefaultTtlSeconds ELSE 1)]]

\* token_store.revoke_user_access_now at time t
RevokeUserAccessNow(cut, u, t) == [cut EXCEPT ![u] = t]

Max(a, b) == IF a >= b THEN a ELSE b
Min(a, b) == IF a <= b THEN a ELSE b

\* keys of MemorySessionStore._data
Present(sess) == {u \in UserIds : sess[u].present}

\* the dict after the keys in gone are popped: the other keys keep their order
Pop(sess, gone) ==
    [v \in UserIds |->
        IF v \in gone \/ ~sess[v].present THEN NoSession
        ELSE [sess[v] EXCEPT !.pos =
                Cardinality({w \in Present(sess) \ gone : sess[w].pos <= sess[v].pos})]]

\* MemorySessionStore.remove_session
RemoveSession(sess, u) == Pop(sess, {u})

\* MemorySessionStore.upsert_session at time t: an existing key keeps its place in
\* the dict, a new key is appended
UpsertSession(sess, u, login_at, last_seen_at, ttl, t) ==
    [sess EXCEPT ![u] =
        [present |-> TRUE, login_at |-> login_at, last_seen_at |-> last_seen_at,
         expire_at |-> t + Max(1, ttl),
         pos |-> IF sess[u].present THEN sess[u].pos ELSE Cardinality(Present(sess)) + 1]]

\* MemorySessionStore.get_session at time t: whether a session is returned
GetSessionFound(sess, u, t) == sess[u].present /\ sess[u].expire_at > t

\* MemorySessionStore.get_session at time t: the dict it leaves (an expired entry is popped)
GetSessionStore(sess, u, t) ==
    IF sess[u].present /\ sess[u].expire_at <= t THEN Pop(sess, {u}) ELSE sess

\* the OnlineSession stored for u
SessionOf(sess, u) ==
    [user_id |-> u, login_at |-> sess[u].login_at, last_seen_at |-> sess[u].last_seen_at]

\* the elements of S as the sequence in which Before(a, b) puts a ahead of b
SortBy(S, Before(_, _)) ==
    CHOOSE q \in [1..Cardinality(S) -> S] :
        \A i \in 1..Cardinality(S) : \A j \in 1..Cardinality(S) :
            i < j => Before(q[i], q[j])

\* a slice index of a list of length n, as Python normalises it
SliceIndex(i, n) == IF i < 0 THEN Max(0, n + i) ELSE Min(i, n)

\* q[a:b]
Slice(q, a, b) == SubSeq(q, SliceIndex(a, Len(q)) + 1, SliceIndex(b, Len(q)))

\* a page number that is used as it is given
ClampPageNone(page) == page

\* list_online: if page < 1: page = 1
ClampPage(page) == IF page < 1 THEN 1 ELSE page

\* a page size that is clamped to the interval [1, 100]
ClampPageSizeToOne(page_size) ==
    IF page_size < 1 THEN 1 ELSE IF page_size > 100 THEN 100 ELSE page_size

\* list_online: if page_size < 1: page_size = 20; if page_size > 100: page_size = 100
ClampPageSize(page_size) ==
    LET ps == IF page_size < 1 THEN 20 ELSE page_size
    IN IF ps > 100 THEN 100 ELSE ps

\* an ascending order of last_seen_at
MemoryBeforeAscending(sess, a, b) ==
    \/ sess[a].last_seen_at < sess[b].last_seen_at
    \/ sess[a].last_seen_at = sess[b].last_seen_at /\ sess[a].pos < sess[b].pos

\* items.sort(key=last_seen_at, reverse=True): a stable sort, so records with equal
\* last_seen_at stay in the order of the dict
MemoryBefore(sess, a, b) ==
    \/ sess[a].last_seen_at > sess[b].last_seen_at
    \/ sess[a].last_seen_at = sess[b].last_seen_at /\ sess[a].pos < sess[b].pos

\* MemorySessionStore.list_online at time t: the page, the total and the dict it leaves
MemoryListOnline(sess, t, page, page_size) ==
    LET pg == ClampPage(page)
        ps == ClampPageSize(page_size)
        live == Pop(sess, {u \in Present(sess) : sess[u].expire_at <= t})
        ids == SortBy(Present(live), LAMBDA a, b : MemoryBefore(live, a, b))
        items == [i \in 1..Len(ids) |-> SessionOf(live, ids[i])]
        start == (pg - 1) * ps
    IN [items |-> Slice(items, start, start + ps), total |-> Len(items), sessions |-> live]

(* ---------------- RedisSessionStore ---------------- *)
\* order of the user_id strings, by which Redis breaks ties of the score
IdRank(u) == IF u = "admin" THEN 1 ELSE IF u = "u1" THEN 2 ELSE 3

\* members of the sorted set at time t (none once the key has expired)
ZMembers(rd, t) ==
    IF rd.zexpire_at > t THEN {u \in UserIds : rd.zscore[u] # NoScore} ELSE {}

\* zrevrange: score descending, equal scores in reverse lexicographical order
ZBefore(rd, a, b) ==
    \/ rd.zscore[a] > rd.zscore[b]
    \/ rd.zscore[a] = rd.zscore[b] /\ IdRank(a) > IdRank(b)

\* RedisSessionStore.get_session at time t: the key exists until its TTL has run out
RedisGetSessionFound(sess, u, t) == sess[u].present /\ sess[u].expire_at > t

\* RedisSessionStore.list_online at time t
RedisListOnline(sess, rd, t, page, page_size) ==
    LET pg == ClampPage(page)
        ps == ClampPageSize(page_size)
        members == ZMembers(rd, t)
        ids == SortBy(members, LAMBDA a, b : ZBefore(rd, a, b))
        start == (pg - 1) * ps
        end == start + ps - 1
        range == Slice(ids, start, end + 1)
        found == SelectSeq(range, LAMBDA u : RedisGetSessionFound(sess, u, t))
    IN [items |-> [i \in 1..Len(found) |-> SessionOf(sess, found[i])],
        total |-> Cardinality(members), sessions |-> sess]

\* RedisSessionStore.upsert_session at time t: the session key
RedisSetSession(sess, u, login_at, last_seen_at, ttl, t) ==
    [sess EXCEPT ![u] =
        [present |-> TRUE, login_at |-> login_at, last_seen_at |-> last_seen_at,
         expire_at |-> t + Max(1, ttl), pos |-> 0]]

\* RedisSessionStore.upsert_session at time t: zadd, expire and zremrangebyscore of
\* the sorted set; the floor of 60 seconds is below one tick of the clock
RedisZUpsert(rd, u, last_seen_at, ttl, t) ==
    LET cutoff == t - Max(1, ttl)
        added == [v \in UserIds |->
                    IF v = u THEN last_seen_at
                    ELSE IF v \in ZMembers(rd, t) THEN rd.zscore[v] ELSE NoScore]
    IN [rd EXCEPT
          !.zscore = [v \in UserIds |->
                        IF added[v] # NoScore /\ added[v] <= cutoff THEN NoScore
                        ELSE added[v]],
          !.zexpire_at = t + Max(1, RefreshTTL)]

\* RedisSessionStore.remove_session: delete of the session key
RedisDelSession(sess, u) == [sess EXCEPT ![u] = NoSession]

\* RedisSessionStore.remove_session: zrem
RedisZRem(rd, u) == [rd EXCEPT !.zscore[u] = NoScore]

(* ---------------- the configured session store ---------------- *)
\* session_store.list_online_sessions -> get_session_store().list_online
ListOnline(sess, rd, t, page, page_size) ==
    IF rd.client THEN RedisListOnline(sess, rd, t, page, page_size)
    ELSE MemoryListOnline(sess, t, page, page_size)

\* session_store.remove_online_session: the session entries it leaves
RemoveOnlineSession(sess, rd, u) ==
    IF rd.client THEN RedisDelSession(sess, u) ELSE RemoveSession(sess, u)

\* session_store.remove_online_session: the sorted set it leaves
RemoveOnlineZset(rd, u) == IF rd.client THEN RedisZRem(rd, u) ELSE rd

\* the user is a member of the Redis sorted set
InZset(rd, u) == rd.client /\ rd.zscore[u] # NoScore

\* the stores hold what a Logout or Kick of u leaves: the sentinel and no session
RevokedAndGone(u) ==
    /\ refreshStore[u].jti = REVOKED_JTI
    /\ ~sessions[u].present
    /\ ~InZset(redis, u)

(* ---------------- logout and kick ---------------- *)
\* POST /auth/logout -> AuthService.logout(user_id = current user)
Logout(p) ==
    /\ pc[p] = "logout"
    /\ refreshStore' = RevokeUser(refreshStore, loc[p].sub, now)
    /\ accessCutoff' = RevokeUserAccessNow(accessCutoff, loc[p].sub, now)
    /\ sessions' = RemoveOnlineSession(sessions, redis, loc[p].sub)
    /\ redis' = RemoveOnlineZset(redis, loc[p].sub)
    /\ revoker' = [revoker EXCEPT ![loc[p].sub] = "logout"]
    /\ pc' = [pc EXCEPT ![p] = "idle"]
    /\ resp' = [resp EXCEPT ![p] =
                  [Response(200, now, NoToken, NoToken, NoLog, 1)
                     EXCEPT !.again = RevokedAndGone(loc[p].sub)]]
    /\ loc' = [loc EXCEPT ![p] = NoLoc]
    /\ UNCHANGED <<now, users, issued, nextJti, rbac, bus, req>>

\* POST /sessions/kick/{user_id} -> SessionService.kick_user: both branches of the
\* principal lookup revoke and remove
KickUser(p) ==
    /\ pc[p] = "kick"
    /\ refreshStore' = RevokeUser(refreshStore, req[p].target, now)
    /\ accessCutoff' = RevokeUserAccessNow(accessCutoff, req[p].target, now)
    /\ sessions' = RemoveOnlineSession(sessions, redis, req[p].target)
    /\ redis' = RemoveOnlineZset(redis, req[p].target)
    /\ revoker' = [revoker EXCEPT ![req[p].target] = "kick"]
    /\ pc' = [pc EXCEPT ![p] = "idle"]
    /\ resp' = [resp EXCEPT ![p] =
                  [Response(200, now, NoToken, NoToken, NoLog, 2)
                     EXCEPT !.again = RevokedAndGone(req[p].target)]]
    /\ loc' = [loc EXCEPT ![p] = NoLoc]
    /\ UNCHANGED <<now, users, issued, nextJti, rbac, bus, req>>

(* ---------------- SessionService.kick_users ---------------- *)
RECURSIVE Unique(_)
\* list(dict.fromkeys(q)): the first occurrence of every element, in order
Unique(q) ==
    IF q = <<>> THEN <<>>
    ELSE LET r == Unique(SubSeq(q, 1, Len(q) - 1))
             last == q[Len(q)]
         IN IF \E i \in 1..Len(r) : r[i] = last THEN r ELSE Append(r, last)

RECURSIVE RevokeUsers(_, _, _)
\* RefreshTokenStore.revoke_users: revoke_user for every id in turn
RevokeUsers(store, q, t) ==
    IF q = <<>> THEN store ELSE RevokeUsers(RevokeUser(store, Head(q), t), Tail(q), t)

RECURSIVE RevokeUsersAccessNow(_, _, _)
\* token_store.revoke_users_access_now
RevokeUsersAccessNow(cut, q, t) ==
    IF q = <<>> THEN cut
    ELSE RevokeUsersAccessNow(RevokeUserAccessNow(cut, Head(q), t), Tail(q), t)

RECURSIVE RemoveSessions(_, _, _)
\* SessionStore.remove_sessions: remove_session for every id in turn
RemoveSessions(sess, rd, q) ==
    IF q = <<>> THEN sess
    ELSE RemoveSessions(RemoveOnlineSession(sess, rd, Head(q)), rd, Tail(q))

RECURSIVE RemoveZsetMembers(_, _)
\* SessionStore.remove_sessions with Redis: the zrem of every id in turn
RemoveZsetMembers(rd, q) ==
    IF q = <<>> THEN rd ELSE RemoveZsetMembers(RemoveOnlineZset(rd, Head(q)), Tail(q))

\* a count that leaves the duplicates in
KickUsersCountAll(user_ids) == Len(user_ids)

\* len(success): every id of unique_ids is appended to success in either branch
KickUsersCount(user_ids) == Len(Unique(user_ids))

\* POST /sessions/kick/batch -> SessionService.kick_users
KickUsers(p) ==
    /\ pc[p] = "kicks"
    /\ LET unique_ids == Unique(req[p].targets)
           missing == SelectSeq(unique_ids, LAMBDA u : ~Get(u).exists)
           all == missing \o unique_ids
       IN IF unique_ids = <<>>
          THEN /\ resp' = [resp EXCEPT ![p] =
                    [Response(200, now, NoToken, NoToken, NoLog, 1)
                       EXCEPT !.result = [NoResult EXCEPT !.success = 0]]]
               /\ UNCHANGED <<refreshStore, accessCutoff, sessions, redis, revoker>>
          ELSE /\ refreshStore' = RevokeUsers(refreshStore, all, now)
               /\ accessCutoff' = RevokeUsersAccessNow(accessCutoff, all, now)
               /\ sessions' = RemoveSessions(sessions, redis, all)
               /\ redis' = RemoveZsetMembers(redis, all)
               /\ revoker' = [u \in UserIds |->
                                IF \E i \in 1..Len(all) : all[i] = u THEN "kick"
                                ELSE revoker[u]]
               /\ resp' = [resp EXCEPT ![p] =
                    [Response(200, now, NoToken, NoToken, NoLog, 1 + Len(unique_ids))
                       EXCEPT !.result =
                          [NoResult EXCEPT !.success = KickUsersCount(req[p].targets)]]]
    /\ pc' = [pc EXCEPT ![p] = "idle"]
    /\ loc' = [loc EXCEPT ![p] = NoLoc]
    /\ UNCHANGED <<now, users, issued, nextJti, rbac, bus, req>>

(* ---------------- direct calls of the store functions ---------------- *)
\* the ttl touch_online_session passes on: the default when ttl_seconds is None
TouchTtl(ttl) == IF ttl = NoTtl THEN RefreshTTL ELSE ttl

\* a login_at that is not taken over from the existing session
TouchLoginAtNow(login_at, existing, t) ==
    IF login_at # NoLoginAt THEN login_at ELSE t

\* login_at of the session touch_online_session builds
TouchLoginAt(login_at, existing, t) ==
    IF login_at # NoLoginAt THEN login_at
    ELSE IF existing # NoLoginAt THEN existing
    ELSE t

\* touch_online_session up to the return of get_session; the clock was read when
\* the call started (loc.at)
TouchGet(p) ==
    /\ pc[p] = "touch_get"
    /\ LET u == req[p].target
           found == IF redis.client THEN RedisGetSessionFound(sessions, u, now)
                    ELSE GetSessionFound(sessions, u, now)
       IN /\ loc' = [loc EXCEPT ![p].existing =
                        IF found THEN sessions[u].login_at ELSE NoLoginAt]
          /\ sessions' = IF redis.client THEN sessions ELSE GetSessionStore(sessions, u, now)
    /\ pc' = [pc EXCEPT ![p] = "touch_upsert"]
    /\ UNCHANGED <<now, users, issued, nextJti, rbac, bus, refreshStore, accessCutoff, redis,
                   revoker, req, resp>>

\* touch_online_session: the session is built and upsert_session stores it
TouchUpsert(p) ==
    /\ pc[p] = "touch_upsert"
    /\ LET u == req[p].target
           login_at == TouchLoginAt(req[p].login_at, loc[p].existing, loc[p].at)
           ttl == TouchTtl(req[p].ttl)
       IN IF redis.client
          THEN /\ sessions' = RedisSetSession(sessions, u, login_at, loc[p].at, ttl, now)
               /\ redis' = RedisZUpsert(redis, u, loc[p].at, ttl, now)
          ELSE /\ sessions' = UpsertSession(sessions, u, login_at, loc[p].at, ttl, now)
               /\ UNCHANGED redis
    /\ pc' = [pc EXCEPT ![p] = "idle"]
    /\ resp' = [resp EXCEPT ![p] = [NoResp EXCEPT !.code = 200, !.at = loc[p].at]]
    /\ loc' = [loc EXCEPT ![p] = NoLoc]
    /\ UNCHANGED <<now, users, issued, nextJti, rbac, bus, refreshStore, accessCutoff, revoker, req>>

\* session_store.list_online_sessions(page, page_size)
ListOnlineSessions(p) ==
    /\ pc[p] = "list"
    /\ LET r == ListOnline(sessions, redis, now, req[p].page, req[p].page_size)
       IN /\ sessions' = r.sessions
          /\ resp' = [resp EXCEPT ![p] =
                [NoResp EXCEPT !.code = 200, !.at = now,
                               !.result = [NoResult EXCEPT !.items = r.items,
                                                           !.total = r.total]]]
    /\ pc' = [pc EXCEPT ![p] = "idle"]
    /\ loc' = [loc EXCEPT ![p] = NoLoc]
    /\ UNCHANGED <<now, users, issued, nextJti, rbac, bus, refreshStore, accessCutoff, redis,
                   revoker, req>>

\* session_store.remove_online_session(user_id)
RemoveOnlineSessionCall(p) ==
    /\ pc[p] = "remove"
    /\ sessions' = RemoveOnlineSession(sessions, redis, req[p].target)
    /\ redis' = RemoveOnlineZset(redis, req[p].target)
    /\ pc' = [pc EXCEPT ![p] = "idle"]
    /\ resp' = [resp EXCEPT ![p] = [NoResp EXCEPT !.code = 200, !.at = now,
                                                    !.again = RevokedAndGone(req[p].target)]]
    /\ loc' = [loc EXCEPT ![p] = NoLoc]
    /\ UNCHANGED <<now, users, issued, nextJti, rbac, bus, refreshStore, accessCutoff, revoker, req>>

\* token_store.revoke_user_refresh(user_id)
RevokeUserRefresh(p) ==
    /\ pc[p] = "revoke"
    /\ refreshStore' = RevokeUser(refreshStore, req[p].target, now)
    /\ pc' = [pc EXCEPT ![p] = "idle"]
    /\ resp' = [resp EXCEPT ![p] = [NoResp EXCEPT !.code = 200, !.at = now,
                                                    !.again = RevokedAndGone(req[p].target)]]
    /\ loc' = [loc EXCEPT ![p] = NoLoc]
    /\ UNCHANGED <<now, users, issued, nextJti, rbac, bus, accessCutoff, sessions, redis, revoker, req>>

\* MemoryRefreshTokenStore.set_current_jti at time t
SetCurrentJti(store, u, jti, ttl, t) ==
    [store EXCEPT ![u] = [jti |-> jti, expire_at |-> t + Max(1, ttl)]]

\* token_store.set_user_refresh_jti(user_id, jti, ttl_seconds)
SetUserRefreshJti(p) ==
    /\ pc[p] = "set_jti"
    /\ refreshStore' = SetCurrentJti(refreshStore, req[p].target, req[p].jti, req[p].ttl, now)
    /\ pc' = [pc EXCEPT ![p] = "idle"]
    /\ resp' = [resp EXCEPT ![p] = [NoResp EXCEPT !.code = 200, !.at = now]]
    /\ loc' = [loc EXCEPT ![p] = NoLoc]
    /\ UNCHANGED <<now, users, issued, nextJti, rbac, bus, accessCutoff, sessions, redis, revoker, req>>

(* ---------------- the Redis stores, command by command ---------------- *)
\* expiry of a key that has no time to live: it outlasts the clock
Persistent == MaxTime + StoreMaxTime + 1

\* the commands when the setex of set_current_jti is sent outside a try statement
TryCommandsWithoutSetex ==
    {"get_jti", "setex_revoked", "zadd", "setex_session", "expire",
     "zremrangebyscore", "get_session", "zrem", "delete", "zcard", "zrevrange"}

\* the Redis commands that RedisRefreshTokenStore and RedisSessionStore send inside a
\* try statement whose except clause catches Exception
TryCommands ==
    {"setex_jti", "get_jti", "setex_revoked", "zadd", "setex_session", "expire",
     "zremrangebyscore", "get_session", "zrem", "delete", "zcard", "zrevrange"}

\* setex(key, ttl, value) on the key v1:auth:refresh:{u} at time t
RedisSetex(store, u, jti, ttl, t) ==
    [store EXCEPT ![u] = [jti |-> jti, expire_at |-> t + ttl]]

\* setex raises when the server is not reached, and on a time to live below 1
\* (invalid expire time)
SetexRaises(rd, ttl) == rd.down \/ ttl < 1

\* get(key) on the key v1:auth:refresh:{u} at time t (0: the key does not exist)
RedisGet(store, u, t) ==
    IF store[u].jti # 0 /\ store[u].expire_at > t THEN store[u].jti ELSE 0

\* a store function is called on an idle handler
Call(p, r) ==
    /\ pc[p] = "idle"
    /\ pc' = [pc EXCEPT ![p] =
                IF r.op = "set_jti" THEN "c_setex_jti"
                ELSE IF r.op = "get_jti" THEN "c_get_jti"
                ELSE IF r.op = "revoke" THEN "c_setex_revoked"
                ELSE IF r.op = "touch" THEN "c_get_session"
                ELSE IF r.op = "remove" THEN "c_zrem"
                ELSE "c_zcard"]
    /\ req' = [req EXCEPT ![p] = r]
    /\ loc' = [loc EXCEPT ![p] = [NoLoc EXCEPT !.at = now]]
    /\ resp' = [resp EXCEPT ![p] = NoResp]
    /\ UNCHANGED <<now, users, issued, nextJti, rbac, bus, refreshStore, accessCutoff, sessions, redis,
                   revoker>>

\* the call returns to its caller
Return(p, raised, result) ==
    /\ pc' = [pc EXCEPT ![p] = "idle"]
    /\ resp' = [resp EXCEPT ![p] =
                  [NoResp EXCEPT !.code = 200, !.at = now, !.raised = raised,
                                 !.result = result]]
    /\ loc' = [loc EXCEPT ![p] = NoLoc]

\* the exception of a command leaves the call and reaches the caller
Propagate(p) ==
    /\ pc' = [pc EXCEPT ![p] = "idle"]
    /\ resp' = [resp EXCEPT ![p] = [NoResp EXCEPT !.code = 500, !.at = now, !.raised = TRUE]]
    /\ loc' = [loc EXCEPT ![p] = NoLoc]

\* the call goes on to its next command with the locals l
Goto(p, step, l) ==
    /\ pc' = [pc EXCEPT ![p] = step]
    /\ loc' = [loc EXCEPT ![p] = l]
    /\ UNCHANGED resp

\* a command raised: the except clause of its try statement runs (handled), or the
\* exception leaves the call
Except(p, cmd, handled) == IF cmd \in TryCommands THEN handled ELSE Propagate(p)

\* RedisRefreshTokenStore.set_current_jti
RedisSetCurrentJti(p) ==
    /\ pc[p] = "c_setex_jti"
    /\ IF SetexRaises(redis, req[p].ttl)
       THEN /\ Except(p, "setex_jti", Return(p, TRUE, NoResult))
            /\ UNCHANGED refreshStore
       ELSE /\ refreshStore' =
                  RedisSetex(refreshStore, req[p].target, req[p].jti, req[p].ttl, now)
            /\ Return(p, FALSE, NoResult)
    /\ UNCHANGED <<now, users, issued, nextJti, rbac, bus, accessCutoff, sessions, redis, revoker, req>>

\* RedisRefreshTokenStore.get_current_jti
RedisGetCurrentJti(p) ==
    /\ pc[p] = "c_get_jti"
    /\ IF redis.down
       THEN Except(p, "get_jti", Return(p, TRUE, NoResult))
       ELSE Return(p, FALSE,
                   [NoResult EXCEPT !.jti = RedisGet(refreshStore, req[p].target, now)])
    /\ UNCHANGED <<now, users, issued, nextJti, rbac, bus, refreshStore, accessCutoff, sessions, redis,
                   revoker, req>>

\* RedisRefreshTokenStore.revoke_user
RedisRevokeUser(p) ==
    /\ pc[p] = "c_setex_revoked"
    /\ IF SetexRaises(redis, DefaultTtlSeconds)
       THEN /\ Except(p, "setex_revoked", Return(p, TRUE, NoResult))
            /\ UNCHANGED refreshStore
       ELSE /\ refreshStore' =
                  RedisSetex(refreshStore, req[p].target, REVOKED_JTI, DefaultTtlSeconds, now)
            /\ Return(p, FALSE, NoResult)
    /\ UNCHANGED <<now, users, issued, nextJti, rbac, bus, accessCutoff, sessions, redis, revoker, req>>

\* touch_online_session: RedisSessionStore.get_session returns the existing session,
\* or None when the command raised
RedisGetSession(p) ==
    /\ pc[p] = "c_get_session"
    /\ LET u == req[p].target IN
       IF redis.down
       THEN Except(p, "get_session",
                   Goto(p, "c_zadd", [loc[p] EXCEPT !.existing = NoLoginAt, !.raised = TRUE]))
       ELSE Goto(p, "c_zadd",
                 [loc[p] EXCEPT !.existing =
                     IF RedisGetSessionFound(sessions, u, now) THEN sessions[u].login_at
                     ELSE NoLoginAt])
    /\ UNCHANGED <<now, users, issued, nextJti, rbac, bus, refreshStore, accessCutoff, sessions, redis,
                   revoker, req>>

\* zadd(zkey, {user_id: score}) at time t: a sorted set that did not exist is created
\* without a time to live
RedisZAdd(rd, u, score, t) ==
    [rd EXCEPT
       !.zscore = [v \in UserIds |->
                     IF v = u THEN score
                     ELSE IF v \in ZMembers(rd, t) THEN rd.zscore[v] ELSE NoScore],
       !.zexpire_at = IF ZMembers(rd, t) = {} THEN Persistent ELSE rd.zexpire_at]

\* RedisSessionStore.upsert_session: the clock is read and zadd is sent
RedisUpsertZAdd(p) ==
    /\ pc[p] = "c_zadd"
    /\ IF redis.down
       THEN /\ Except(p, "zadd",
                      Goto(p, "c_zremrangebyscore",
                           [loc[p] EXCEPT !.started = now, !.raised = TRUE]))
            /\ UNCHANGED redis
       ELSE /\ redis' = RedisZAdd(redis, req[p].target, loc[p].at, now)
            /\ Goto(p, "c_setex_session", [loc[p] EXCEPT !.started = now])
    /\ UNCHANGED <<now, users, issued, nextJti, rbac, bus, refreshStore, accessCutoff, sessions,
                   revoker, req>>

\* RedisSessionStore.upsert_session: setex of the session key
RedisUpsertSetex(p) ==
    /\ pc[p] = "c_setex_session"
    /\ LET u == req[p].target
           login_at == TouchLoginAt(req[p].login_at, loc[p].existing, loc[p].at)
       IN IF redis.down
          THEN /\ Except(p, "setex_session",
                         Goto(p, "c_zremrangebyscore", [loc[p] EXCEPT !.raised = TRUE]))
               /\ UNCHANGED sessions
          ELSE /\ sessions' = RedisSetSession(sessions, u, login_at, loc[p].at,
                                              TouchTtl(req[p].ttl), now)
               /\ Goto(p, "c_expire", loc[p])
    /\ UNCHANGED <<now, users, issued, nextJti, rbac, bus, refreshStore, accessCutoff, redis,
                   revoker, req>>

\* expire(zkey, seconds) at time t: nothing to do on a sorted set that does not exist
RedisExpire(rd, t) ==
    IF ZMembers(rd, t) = {} THEN rd ELSE [rd EXCEPT !.zexpire_at = t + Max(1, RefreshTTL)]

\* RedisSessionStore.upsert_session: expire of the sorted set
RedisUpsertExpire(p) ==
    /\ pc[p] = "c_expire"
    /\ IF redis.down
       THEN /\ Except(p, "expire",
                      Goto(p, "c_zremrangebyscore", [loc[p] EXCEPT !.raised = TRUE]))
            /\ UNCHANGED redis
       ELSE /\ redis' = RedisExpire(redis, now)
            /\ Goto(p, "c_zremrangebyscore", loc[p])
    /\ UNCHANGED <<now, users, issued, nextJti, rbac, bus, refreshStore, accessCutoff, sessions,
                   revoker, req>>

\* zremrangebyscore(zkey, 0, cutoff)
RedisZRemRangeByScore(rd, cutoff) ==
    [rd EXCEPT !.zscore = [v \in UserIds |->
                             IF rd.zscore[v] # NoScore /\ rd.zscore[v] <= cutoff THEN NoScore
                             ELSE rd.zscore[v]]]

\* RedisSessionStore.upsert_session: the members last seen before the cutoff are
\* removed (try ... except Exception: pass)
RedisUpsertPrune(p) ==
    /\ pc[p] = "c_zremrangebyscore"
    /\ IF redis.down
       THEN /\ Except(p, "zremrangebyscore", Return(p, TRUE, NoResult))
            /\ UNCHANGED redis
       ELSE /\ redis' = RedisZRemRangeByScore(redis,
                            loc[p].started - Max(1, TouchTtl(req[p].ttl)))
            /\ Return(p, loc[p].raised, NoResult)
    /\ UNCHANGED <<now, users, issued, nextJti, rbac, bus, refreshStore, accessCutoff, sessions,
                   revoker, req>>

\* RedisSessionStore.remove_session: zrem
RedisRemoveZRem(p) ==
    /\ pc[p] = "c_zrem"
    /\ IF redis.down
       THEN /\ Except(p, "zrem", Return(p, TRUE, NoResult))
            /\ UNCHANGED redis
       ELSE /\ redis' = RedisZRem(redis, req[p].target)
            /\ Goto(p, "c_delete", loc[p])
    /\ UNCHANGED <<now, users, issued, nextJti, rbac, bus, refreshStore, accessCutoff, sessions,
                   revoker, req>>

\* RedisSessionStore.remove_session: delete of the session key
RedisRemoveDelete(p) ==
    /\ pc[p] = "c_delete"
    /\ IF redis.down
       THEN /\ Except(p, "delete", Return(p, TRUE, NoResult))
            /\ UNCHANGED sessions
       ELSE /\ sessions' = RedisDelSession(sessions, req[p].target)
            /\ Return(p, FALSE, NoResult)
    /\ UNCHANGED <<now, users, issued, nextJti, rbac, bus, refreshStore, accessCutoff, redis,
                   revoker, req>>

\* the value list_online returns when zcard or zrevrange raised
EmptyPage == [NoResult EXCEPT !.items = <<>>, !.total = 0]

\* RedisSessionStore.list_online: zcard
RedisListZCard(p) ==
    /\ pc[p] = "c_zcard"
    /\ IF redis.down
       THEN Except(p, "zcard", Return(p, TRUE, EmptyPage))
       ELSE Goto(p, "c_zrevrange",
                 [loc[p] EXCEPT !.total = Cardinality(ZMembers(redis, now))])
    /\ UNCHANGED <<now, users, issued, nextJti, rbac, bus, refreshStore, accessCutoff, sessions, redis,
                   revoker, req>>

\* zrevrange(zkey, start, end) at time t
RedisZRevRange(rd, t, start, end) ==
    Slice(SortBy(ZMembers(rd, t), LAMBDA a, b : ZBefore(rd, a, b)), start, end + 1)

\* RedisSessionStore.list_online: zrevrange; an empty range ends the call
RedisListZRevRange(p) ==
    /\ pc[p] = "c_zrevrange"
    /\ LET pg == ClampPage(req[p].page)
           ps == ClampPageSize(req[p].page_size)
           start == (pg - 1) * ps
           end == start + ps - 1
           range == RedisZRevRange(redis, now, start, end)
       IN IF redis.down
          THEN Except(p, "zrevrange", Return(p, TRUE, EmptyPage))
          ELSE IF range = <<>>
               THEN Return(p, FALSE, [NoResult EXCEPT !.items = <<>>, !.total = loc[p].total])
               ELSE Goto(p, "c_list_get", [loc[p] EXCEPT !.range = range])
    /\ UNCHANGED <<now, users, issued, nextJti, rbac, bus, refreshStore, accessCutoff, sessions, redis,
                   revoker, req>>

\* RedisSessionStore.list_online: get_session of the next user id of the range; the
\* call returns after the last one
RedisListGetSession(p) ==
    /\ pc[p] = "c_list_get"
    /\ LET u == Head(loc[p].range)
           raises == redis.down
           found == ~raises /\ RedisGetSessionFound(sessions, u, now)
           items == IF found THEN Append(loc[p].items, SessionOf(sessions, u))
                    ELSE loc[p].items
           raised == loc[p].raised \/ raises
           rest == Tail(loc[p].range)
           go == IF rest = <<>>
                 THEN Return(p, raised,
                             [NoResult EXCEPT !.items = items, !.total = loc[p].total])
                 ELSE Goto(p, "c_list_get",
                           [loc[p] EXCEPT !.range = rest, !.items = items, !.raised = raised])
       IN IF raises THEN Except(p, "get_session", go) ELSE go
    /\ UNCHANGED <<now, users, issued, nextJti, rbac, bus, refreshStore, accessCutoff, sessions, redis,
                   revoker, req>>

\* the Redis server stops answering: from now on its commands raise
RedisGoesDown ==
    /\ redis.client
    /\ ~redis.down
    /\ redis' = [redis EXCEPT !.down = TRUE]
    /\ UNCHANGED <<now, users, issued, nextJti, rbac, bus, refreshStore, accessCutoff, sessions,
                   revoker, pc, req, loc, resp>>

\* the Redis server answers again
RedisComesBack ==
    /\ redis.client
    /\ redis.down
    /\ redis' = [redis EXCEPT !.down = FALSE]
    /\ UNCHANGED <<now, users, issued, nextJti, rbac, bus, refreshStore, accessCutoff, sessions,
                   revoker, pc, req, loc, resp>>

(* ---------------- auth_cookies.py: the CSRF token ---------------- *)
\* a part of a string between two dots: a text without digits only, a decimal
\* number, or the hex digest of an HMAC under a key over a message
Text(x) == [k |-> "text", s |-> x, n |-> 0, m |-> <<>>]
Num(i) == [k |-> "num", s |-> "", n |-> i, m |-> <<>>]
Digest(key, msg) == [k |-> "sig", s |-> key, n |-> 0, m |-> msg]

\* settings.SECRET_KEY and a key that is not the server's
SecretKey == "SECRET_KEY"
OtherKey == "other key"

\* secrets.token_urlsafe(16): the nonces drawn in a behaviour
Nonces == {Text("n1"), Text("n2")}

\* the subjects of a token: None, a user id, and a string with a dot in it
CsrfSubjects == {NoSubject, <<Text("u1")>>, <<Text("a"), Text("b")>>}

\* the 60 seconds of clock skew that validate_csrf_token allows
ClockSkew == 60

\* _csrf_sign(nonce, ts, subject): the message is "nonce.ts.subject", or "nonce.ts"
\* when there is no subject
CsrfSign(nonce, ts, subject) == Digest(SecretKey, <<nonce, Num(ts)>> \o subject)

\* generate_csrf_token(subject) at time t with the nonce drawn: the parts of
\* "nonce.ts.subject.sig", or of "nonce.ts.sig" when there is no subject
GenerateCsrfToken(subject, t, nonce) ==
    <<nonce, Num(t)>> \o subject \o <<CsrfSign(nonce, t, subject)>>

\* validate_csrf_token(token, max_age_seconds, subject) at time t; token is
\* token.split(".")
ValidateCsrfToken(token, max_age, subject, t) ==
    IF token = <<>> THEN FALSE
    ELSE IF Len(token) = 4
    THEN IF subject # NoSubject /\ <<token[3]>> # subject THEN FALSE
         ELSE IF token[2].k # "num" THEN FALSE
         ELSE IF token[4] # CsrfSign(token[1], token[2].n, <<token[3]>>) THEN FALSE
         ELSE IF max_age # NoMaxAge /\ token[2].n > t + ClockSkew THEN FALSE
         ELSE IF max_age # NoMaxAge /\ t - token[2].n > max_age THEN FALSE
         ELSE TRUE
    ELSE IF Len(token) = 3
    THEN IF subject # NoSubject THEN FALSE
         ELSE IF token[2].k # "num" THEN FALSE
         ELSE IF token[3] # CsrfSign(token[1], token[2].n, NoSubject) THEN FALSE
         ELSE IF max_age # NoMaxAge /\ token[2].n > t + ClockSkew THEN FALSE
         ELSE IF max_age # NoMaxAge /\ t - token[2].n > max_age THEN FALSE
         ELSE TRUE
    ELSE FALSE

\* max_age_seconds of a validation: None, or a number of seconds
MaxAges == {NoMaxAge, 1}

\* the tokens a handler has generated and returned
Generated == {resp[q].result.csrf : q \in {x \in Procs : resp[x].result.csrf # <<>>}}

\* tokens of another instance of the server whose clock is ahead by d seconds
Skewed(d) == {GenerateCsrfToken(j, now + d, Text("n2")) : j \in {NoSubject, <<Text("u1")>>}}

\* what a client makes of a token without the key: another timestamp, a timestamp
\* that is no number, another subject, no subject, a digest under another key
Forged(token) ==
    {[token EXCEPT ![2] = Num(token[2].n + 1)],
     [token EXCEPT ![2] = Text("x")],
     [token EXCEPT ![Len(token)] = Digest(OtherKey, token[Len(token)].m)]}
    \cup (IF Len(token) = 4
          THEN {[token EXCEPT ![3] = Text("u2")], <<token[1], token[2], token[4]>>}
          ELSE {})

\* the header X-CSRF-Token of a request: a string of any origin
CsrfInputs ==
    Generated
    \cup UNION {Forged(k) : k \in {x \in Generated : Len(x) \in {3, 4}}}
    \cup Skewed(ClockSkew) \cup Skewed(ClockSkew + 1)
    \cup {<<>>, <<Text("n1"), Num(0)>>}

CsrfRequests ==
    {[NoReq EXCEPT !.op = "csrf_generate", !.subject = j] : j \in CsrfSubjects}
    \cup {[NoReq EXCEPT !.op = "csrf_validate", !.csrf = k, !.max_age = a, !.subject = j]
            : k \in CsrfInputs, a \in MaxAges, j \in CsrfSubjects}

\* a function of auth_cookies.py is called; h1 generates, h2 validates
CsrfCall(p, r) ==
    /\ pc[p] = "idle"
    /\ r.op = IF p = "h1" THEN "csrf_generate" ELSE "csrf_validate"
    /\ pc' = [pc EXCEPT ![p] = r.op]
    /\ req' = [req EXCEPT ![p] = r]
    /\ loc' = [loc EXCEPT ![p] = [NoLoc EXCEPT !.at = now]]
    /\ resp' = [resp EXCEPT ![p] = NoResp]
    /\ UNCHANGED <<now, users, issued, nextJti, rbac, bus, refreshStore, accessCutoff, sessions, redis,
                   revoker>>

CsrfGenerate(p) ==
    /\ pc[p] = "csrf_generate"
    /\ \E n \in Nonces :
          resp' = [resp EXCEPT ![p] =
                     [NoResp EXCEPT !.code = 200, !.at = now,
                        !.result = [NoResult EXCEPT
                                      !.csrf = GenerateCsrfToken(req[p].subject, now, n)]]]
    /\ pc' = [pc EXCEPT ![p] = "idle"]
    /\ loc' = [loc EXCEPT ![p] = NoLoc]
    /\ UNCHANGED <<now, users, issued, nextJti, rbac, bus, refreshStore, accessCutoff, sessions, redis,
                   revoker, req>>

CsrfValidate(p) ==
    /\ pc[p] = "csrf_validate"
    /\ resp' = [resp EXCEPT ![p] =
                  [NoResp EXCEPT !.code = 200, !.at = now,
                     !.result = [NoResult EXCEPT
                                   !.valid = ValidateCsrfToken(req[p].csrf, req[p].max_age,
                                                               req[p].subject, now)]]]
    /\ pc' = [pc EXCEPT ![p] = "idle"]
    /\ loc' = [loc EXCEPT ![p] = NoLoc]
    /\ UNCHANGED <<now, users, issued, nextJti, rbac, bus, refreshStore, accessCutoff, sessions, redis,
                   revoker, req>>

(* ---------------- specifications ---------------- *)
Environment ==
    \/ Tick
    \/ \E u \in Managed, b \in BOOLEAN : UpdateUserActive(u, b)
    \/ \E u \in Managed : SoftDeleteUser(u)
    \/ \E u \in Managed : RestoreUser(u)
    \/ \E u \in Managed : HardDeleteUser(u)

Next ==
    \/ Environment
    \/ \E p \in Handlers : \E r \in Requests : Request(p, r, MaxIssued)
    \/ \E p \in Handlers : LoginAccessToken(p)
    \/ \E p \in Handlers : RefreshDecode(p)
    \/ \E p \in Handlers : RefreshIssue(p)
    \/ \E p \in Handlers : GetCurrentUser(p)
    \/ \E p \in Handlers : TestToken(p)
    \/ \E p \in Handlers : Logout(p)

Spec == Init /\ [][Next]_vars

\* two handlers serving Login and Refresh concurrently
RaceRequests ==
    {r \in LoginRequests : r.username = "alice" /\ r.password = "good"}
    \cup {r \in RefreshRequests : r.tok \in issued}

NextRace ==
    \/ Tick
    \/ \E p \in Procs : \E r \in RaceRequests : Request(p, r, MaxIssued)
    \/ \E p \in Procs : LoginAccessToken(p)
    \/ \E p \in Procs : RefreshDecode(p)
    \/ \E p \in Procs : RefreshIssue(p)

SpecRace == Init /\ [][NextRace]_vars

\* an administrator and a user log in, the administrator kicks, the user refreshes
KickRequests ==
    {r \in LoginRequests : r.username \in {"admin", "alice"} /\ r.password = "good"}
    \cup {r \in RefreshRequests : r.tok \in issued /\ r.tok.type = "refresh"}
    \cup {r \in ProtectedRequests : r.op = "kick" /\ r.tok \in issued /\ r.tok.type = "access"}

NextKick ==
    \/ Tick
    \/ \E p \in Handlers : \E r \in KickRequests : Request(p, r, MaxIssued + 2)
    \/ \E p \in Handlers : LoginAccessToken(p)
    \/ \E p \in Handlers : RefreshDecode(p)
    \/ \E p \in Handlers : RefreshIssue(p)
    \/ \E p \in Handlers : GetCurrentUser(p)
    \/ \E p \in Handlers : KickUser(p)

SpecKick == Init /\ [][NextKick]_vars

\* the stores as the functions of session_store.py and token_store.py are called
\* on them, with either backend configured
InitStore ==
    /\ now = 0
    /\ users = [u \in UserIds |-> LiveRow]
    /\ issued = {}
    /\ nextJti = 1
    /\ rbac = NoRbac
    /\ bus = NoBus
    /\ refreshStore = [u \in UserIds |-> NoEntry]
    /\ accessCutoff = [u \in UserIds |-> NoCutoff]
    /\ sessions = [u \in UserIds |-> NoSession]
    /\ redis \in {NoRedis, [NoRedis EXCEPT !.client = TRUE]}
    /\ revoker = [u \in UserIds |-> "none"]
    /\ pc = [p \in Procs |-> "idle"]
    /\ req = [p \in Procs |-> NoReq]
    /\ loc = [p \in Procs |-> NoLoc]
    /\ resp = [p \in Procs |-> NoResp]

\* requests of the session registry
RegistryRequests == {r \in StoreRequests : r.op \in {"touch", "list", "remove"}}

\* the calls are made one after the other; a call takes less than a tick of the clock
NextStore ==
    \/ now < StoreMaxTime /\ (\A p \in Handlers : pc[p] = "idle") /\ Tick
    \/ \E p \in Handlers : \E r \in RegistryRequests : Request(p, r, MaxIssued)
    \/ \E p \in Handlers : TouchGet(p)
    \/ \E p \in Handlers : TouchUpsert(p)
    \/ \E p \in Handlers : ListOnlineSessions(p)
    \/ \E p \in Handlers : RemoveOnlineSessionCall(p)

SpecStore == InitStore /\ [][NextStore]_vars

\* an administrator is logged in; sessions and stored jtis come and go by the calls
\* of the collaborators; the administrator kicks users and logs out
SessionRequests ==
    {r \in LoginRequests : r.username = "admin" /\ r.password = "good"}
    \cup {r \in ProtectedRequests :
            /\ r.op \in {"kick", "logout"}
            /\ r.tok \in issued /\ r.tok.type = "access"}
    \cup {r \in StoreRequests :
            /\ r.op \in {"touch", "set_jti", "revoke", "remove"}
            /\ r.target = "u1" /\ r.ttl # 1 /\ r.login_at = NoLoginAt}

NextSession ==
    \/ now < StoreMaxTime /\ (\A p \in Handlers : pc[p] = "idle") /\ Tick
    \/ \E u \in Managed : HardDeleteUser(u)
    \/ \E p \in Handlers : \E r \in SessionRequests : Request(p, r, MaxIssued)
    \/ \E p \in Handlers : LoginAccessToken(p)
    \/ \E p \in Handlers : GetCurrentUser(p)
    \/ \E p \in Handlers : Logout(p)
    \/ \E p \in Handlers : KickUser(p)
    \/ \E p \in Handlers : TouchGet(p)
    \/ \E p \in Handlers : TouchUpsert(p)
    \/ \E p \in Handlers : RemoveOnlineSessionCall(p)
    \/ \E p \in Handlers : RevokeUserRefresh(p)
    \/ \E p \in Handlers : SetUserRefreshJti(p)

SpecSession == InitStore /\ [][NextSession]_vars

\* an administrator kicks lists of users whose sessions and stored jtis come and go
KickManyRequests ==
    {r \in LoginRequests : r.username = "admin" /\ r.password = "good"}
    \cup {r \in ProtectedRequests :
            r.op = "kicks" /\ r.tok \in issued /\ r.tok.type = "access"}
    \cup {r \in StoreRequests :
            /\ r.op \in {"touch", "set_jti"}
            /\ r.target = "u1" /\ r.ttl # 1 /\ r.login_at = NoLoginAt}

NextKickMany ==
    \/ now < StoreMaxTime /\ (\A p \in Handlers : pc[p] = "idle") /\ Tick
    \/ \E u \in Managed : HardDeleteUser(u)
    \/ \E p \in Handlers : \E r \in KickManyRequests : Request(p, r, MaxIssued)
    \/ \E p \in Handlers : LoginAccessToken(p)
    \/ \E p \in Handlers : GetCurrentUser(p)
    \/ \E p \in Handlers : KickUsers(p)
    \/ \E p \in Handlers : TouchGet(p)
    \/ \E p \in Handlers : TouchUpsert(p)
    \/ \E p \in Handlers : SetUserRefreshJti(p)

SpecKickMany == InitStore /\ [][NextKickMany]_vars

\* two handlers touch the session of the same user with Redis configured: every
\* await of touch_online_session is then a point where the other handler runs
TouchRequests ==
    {r \in StoreRequests : r.op = "touch" /\ r.target = "u1" /\ r.login_at = NoLoginAt}

NextTouch ==
    \/ now < StoreMaxTime /\ Tick
    \/ \E p \in Procs : \E r \in TouchRequests : Request(p, r, MaxIssued)
    \/ \E p \in Procs : TouchGet(p)
    \/ \E p \in Procs : TouchUpsert(p)

\* the stores when cache.redis_client is configured
InitTouch == InitStore /\ redis.client

SpecTouch == InitTouch /\ [][NextTouch]_vars

\* the store functions called one after the other with Redis configured, while the
\* Redis server goes down and comes back between any two commands
CacheRequests ==
    {r \in StoreRequests : r.op \in {"set_jti", "revoke", "remove"} /\ r.target = "u1"}
    \cup {r \in StoreRequests :
            /\ r.op = "touch" /\ r.target \in {"u1", "u2"}
            /\ r.ttl = NoTtl /\ r.login_at = NoLoginAt}
    \cup {[NoReq EXCEPT !.op = "get_jti", !.target = "u1"], [NoReq EXCEPT !.op = "list"]}

RedisCommand(p) ==
    \/ RedisSetCurrentJti(p)
    \/ RedisGetCurrentJti(p)
    \/ RedisRevokeUser(p)
    \/ RedisGetSession(p)
    \/ RedisUpsertZAdd(p)
    \/ RedisUpsertSetex(p)
    \/ RedisUpsertExpire(p)
    \/ RedisUpsertPrune(p)
    \/ RedisRemoveZRem(p)
    \/ RedisRemoveDelete(p)
    \/ RedisListZCard(p)
    \/ RedisListZRevRange(p)
    \/ RedisListGetSession(p)

NextCache ==
    \/ now < StoreMaxTime /\ (\A p \in Handlers : pc[p] = "idle") /\ Tick
    \/ RedisGoesDown
    \/ RedisComesBack
    \/ \E p \in Handlers : \E r \in CacheRequests : Call(p, r)
    \/ \E p \in Handlers : RedisCommand(p)

SpecCache == InitTouch /\ [][NextCache]_vars

\* CSRF tokens are generated and validated as the clock advances
NextCsrf ==
    \/ now < StoreMaxTime /\ Tick
    \/ \E p \in Procs : \E r \in CsrfRequests : CsrfCall(p, r)
    \/ \E p \in Procs : CsrfGenerate(p)
    \/ \E p \in Procs : CsrfValidate(p)

SpecCsrf == Init /\ [][NextCsrf]_vars

(* ======================= roles, menus and the permission cache ======================= *)
\* the committed changes of roles and menus a run makes at most
MaxVersion == 3

\* the methods of RoleService that run under @transactional()
RoleMutations ==
    {"create_role", "update_role", "delete_role", "batch_delete_roles", "restore_role"}
\* the methods of MenuService that run under @transactional()
MenuMutations ==
    {"create_menu", "update_menu", "delete_menu", "batch_delete_menus", "restore_menu"}

\* the code of the exception the body of a RoleService method raises (0: it returns)
RoleServiceRaises(r) ==
    IF r.op = "create_role" THEN (IF r.duplicate THEN 400 ELSE 0)
    ELSE IF r.op = "update_role"
        THEN (IF ~r.found THEN 404 ELSE IF r.duplicate THEN 400 ELSE 0)
    ELSE IF r.op = "delete_role"
        THEN (IF ~r.found THEN 404 ELSE IF ~r.removed THEN 404 ELSE 0)
    ELSE IF r.op = "batch_delete_roles" THEN 0
    ELSE (IF ~r.found THEN 404 ELSE 0)

\* the length of _post_commit_tasks when the body of a RoleService method is left:
\* _invalidate_permissions_cache_after_commit is called once, after the last raise
RoleServiceTasks(r) == IF RoleServiceRaises(r) = 0 THEN 1 ELSE 0

\* the code of the exception the body of a MenuService method raises (0: it returns)
MenuServiceRaises(r) ==
    IF r.op = "create_menu" THEN 0
    ELSE IF r.op = "update_menu" THEN (IF ~r.found THEN 404 ELSE 0)
    ELSE IF r.op = "delete_menu"
        THEN (IF ~r.found THEN 404 ELSE IF ~r.removed THEN 404 ELSE 0)
    ELSE IF r.op = "batch_delete_menus" THEN 0
    ELSE (IF ~r.found THEN 404 ELSE 0)

\* create_menu appends no task
MenuServiceTasksNoCreate(r) ==
    IF MenuServiceRaises(r) = 0 /\ r.op # "create_menu" THEN 1 ELSE 0
\* the length of _post_commit_tasks when the body of a MenuService method is left
MenuServiceTasks(r) == IF MenuServiceRaises(r) = 0 THEN 1 ELSE 0

ServiceRaises(r) ==
    IF r.op \in RoleMutations THEN RoleServiceRaises(r) ELSE MenuServiceRaises(r)
ServiceTasks(r) ==
    IF r.op \in RoleMutations THEN RoleServiceTasks(r) ELSE MenuServiceTasks(r)

\* the requests to the role and menu endpoints, with what their queries find
RbacRequests ==
    {[NoReq EXCEPT !.op = o] : o \in {"batch_delete_roles", "create_menu",
                                      "batch_delete_menus"}}
    \cup {[NoReq EXCEPT !.op = "create_role", !.duplicate = d] : d \in BOOLEAN}
    \cup {[NoReq EXCEPT !.op = o, !.found = f] :
            o \in {"restore_role", "update_menu", "restore_menu"}, f \in BOOLEAN}
    \cup {[NoReq EXCEPT !.op = "update_role", !.found = f, !.duplicate = d] :
            f \in {TRUE}, d \in BOOLEAN}
    \cup {[NoReq EXCEPT !.op = "update_role", !.found = FALSE]}
    \cup {[NoReq EXCEPT !.op = o, !.found = f, !.removed = m] :
            o \in {"delete_role", "delete_menu"}, f \in {TRUE}, m \in BOOLEAN}
    \cup {[NoReq EXCEPT !.op = o, !.found = FALSE] : o \in {"delete_role", "delete_menu"}}

\* the requests that pass a permission check of a user
PermissionRequests == {[NoReq EXCEPT !.op = "check_permission", !.target = u] :
                          u \in {"u1", "u2"}}

\* a request reaches a role / menu mutation or a permission check
RbacCall(p, r) ==
    /\ pc[p] = "idle"
    /\ pc' = [pc EXCEPT ![p] = IF r.op = "check_permission" THEN "p_get" ELSE "t_body"]
    /\ req' = [req EXCEPT ![p] = r]
    /\ loc' = [loc EXCEPT ![p] = [NoLoc EXCEPT !.at = now]]
    /\ resp' = [resp EXCEPT ![p] = NoResp]
    /\ UNCHANGED <<now, users, issued, nextJti, rbac, bus, refreshStore, accessCutoff, sessions,
                   redis, revoker>>

\* transactional(): the body of the method runs in the transaction; an exception rolls
\* the transaction back and reaches the caller, and no post-commit task runs
TransactionalBody(p) ==
    /\ pc[p] = "t_body"
    /\ IF ServiceRaises(req[p]) # 0
        THEN /\ pc' = [pc EXCEPT ![p] = "idle"]
             /\ resp' = [resp EXCEPT ![p] =
                           [NoResp EXCEPT !.code = ServiceRaises(req[p]), !.at = now]]
             /\ loc' = [loc EXCEPT ![p] = NoLoc]
        ELSE /\ rbac.version < MaxVersion
             /\ Goto(p, "t_commit", [loc[p] EXCEPT !.tasks = ServiceTasks(req[p])])
    /\ UNCHANGED <<now, users, issued, nextJti, rbac, bus, refreshStore, accessCutoff, sessions,
                   redis, revoker, req>>

\* transactional(): the transaction commits; the change is visible to every reader
TransactionalCommit(p) ==
    /\ pc[p] = "t_commit"
    /\ rbac' = [rbac EXCEPT !.version = rbac.version + 1]
    /\ Goto(p, "t_tasks", [loc[p] EXCEPT !.version = rbac.version + 1])
    /\ UNCHANGED <<now, users, issued, nextJti, bus, refreshStore, accessCutoff, sessions,
                   redis, revoker, req>>

\* invalidate_cache("v1:user:permissions:*"): every cached permission set is deleted
InvalidateCache(rb) ==
    [rb EXCEPT !.epoch = rb.epoch + 1, !.cache = [u \in UserIds |-> NoPerms]]

\* transactional(): after the commit the tasks of _post_commit_tasks run, then the
\* result of the method is returned
TransactionalPostCommit(p) ==
    /\ pc[p] = "t_tasks"
    /\ rbac' = IF loc[p].tasks > 0 THEN InvalidateCache(rbac) ELSE rbac
    /\ Return(p, FALSE, NoResult)
    /\ UNCHANGED <<now, users, issued, nextJti, bus, refreshStore, accessCutoff, sessions,
                   redis, revoker, req>>

\* the permission check reads v1:user:permissions:{user_id}: a cached permission set
\* answers the check, otherwise the permission set is computed
PermissionCacheGet(p) ==
    /\ pc[p] = "p_get"
    /\ IF rbac.cache[req[p].target].cached
        THEN Return(p, FALSE, [NoResult EXCEPT !.hit = TRUE,
                                               !.perms = rbac.cache[req[p].target]])
        ELSE Goto(p, "p_load", loc[p])
    /\ UNCHANGED <<now, users, issued, nextJti, rbac, bus, refreshStore, accessCutoff, sessions,
                   redis, revoker, req>>

\* the permission set is computed from the committed roles and menus
PermissionLoad(p) ==
    /\ pc[p] = "p_load"
    /\ Goto(p, "p_set", [loc[p] EXCEPT !.version = rbac.version])
    /\ UNCHANGED <<now, users, issued, nextJti, rbac, bus, refreshStore, accessCutoff, sessions,
                   redis, revoker, req>>

\* the computed permission set is cached and answers the check
PermissionCacheSet(p) ==
    /\ pc[p] = "p_set"
    /\ rbac' = [rbac EXCEPT !.cache[req[p].target] =
                  [cached |-> TRUE, version |-> loc[p].version, epoch |-> rbac.epoch]]
    /\ Return(p, FALSE, [NoResult EXCEPT !.perms =
                  [cached |-> TRUE, version |-> loc[p].version, epoch |-> rbac.epoch]])
    /\ UNCHANGED <<now, users, issued, nextJti, bus, refreshStore, accessCutoff, sessions,
                   redis, revoker, req>>

\* the cached permission set of a user expires
PermissionCacheExpires ==
    /\ \E u \in UserIds :
          /\ rbac.cache[u].cached
          /\ rbac' = [rbac EXCEPT !.cache[u] = NoPerms]
    /\ UNCHANGED <<now, users, issued, nextJti, bus, refreshStore, accessCutoff, sessions,
                   redis, revoker, req, loc, pc, resp>>

\* roles and menus are changed while permissions are checked
NextRbac ==
    \/ \E p \in Procs : \E r \in RbacRequests \cup PermissionRequests : RbacCall(p, r)
    \/ \E p \in Procs : TransactionalBody(p)
    \/ \E p \in Procs : TransactionalCommit(p)
    \/ \E p \in Procs : TransactionalPostCommit(p)
    \/ \E p \in Procs : PermissionCacheGet(p)
    \/ \E p \in Procs : PermissionLoad(p)
    \/ \E p \in Procs : PermissionCacheSet(p)
    \/ PermissionCacheExpires

SpecRbac == Init /\ [][NextRbac]_vars

(* ======================= event_bus.py ======================= *)
\* the subscriptions of one event type and the events published in a run, at most
MaxSubscriptions == 2
MaxPublished == 2
\* the coroutine functions that are subscribed
EventHandlers == {"write_log", "audit"}

\* the class an event class inherits from
BaseType(t) == "Event"

\* the subscriptions of the class and of its base class
HandlersOfWithBase(b, t) ==
    IF t = "Event" THEN b.handlers[t] ELSE b.handlers[t] \o b.handlers[BaseType(t)]
\* self._handlers.get(type(event), [])
HandlersOf(b, t) == b.handlers[t]

\* EventBus.subscribe: the handler is appended to the list of the event type
Subscribe ==
    /\ \E t \in EventTypes : \E h \in EventHandlers :
          /\ Len(bus.handlers[t]) < MaxSubscriptions
          /\ bus' = [bus EXCEPT !.handlers[t] = Append(bus.handlers[t], h)]
    /\ UNCHANGED <<now, users, issued, nextJti, rbac, refreshStore, accessCutoff, sessions,
                   redis, revoker, req, loc, pc, resp>>

\* asyncio.create_task(self._safe_call(handler, event)) for handler in handlers
CreateTasks(handlers, event, t) ==
    [i \in 1..Len(handlers) |->
        [event |-> event, type |-> t, handler |-> handlers[i], state |-> "pending",
         raised |-> FALSE]]

\* EventBus.publish, called by RequestLogMiddleware.dispatch: no subscriber of the
\* type of the event, nothing happens; otherwise one task per subscription is created.
\* publish awaits nothing and returns None; req.username holds the class of the event
Publish(p) ==
    /\ pc[p] = "idle"
    /\ bus.published < MaxPublished
    /\ \E t \in EventTypes :
          /\ req' = [req EXCEPT ![p] = [NoReq EXCEPT !.op = "publish", !.username = t]]
          /\ bus' = [bus EXCEPT
                       !.published = bus.published + 1,
                       !.tasks = bus.tasks \o CreateTasks(HandlersOf(bus, t),
                                                          bus.published + 1, t)]
    /\ Return(p, FALSE, NoResult)
    /\ UNCHANGED <<now, users, issued, nextJti, rbac, refreshStore, accessCutoff, sessions,
                   redis, revoker>>

\* the event loop starts a task: _safe_call awaits handler(event)
SafeCallStart ==
    /\ \E i \in 1..Len(bus.tasks) :
          /\ bus.tasks[i].state = "pending"
          /\ bus' = [bus EXCEPT !.tasks[i].state = "running"]
    /\ UNCHANGED <<now, users, issued, nextJti, rbac, refreshStore, accessCutoff, sessions,
                   redis, revoker, req, loc, pc, resp>>

\* handler(event) returns or raises; _safe_call catches the Exception and logs it,
\* the task ends
SafeCallEnd ==
    /\ \E i \in 1..Len(bus.tasks) : \E raises \in BOOLEAN :
          /\ bus.tasks[i].state = "running"
          /\ bus' = [bus EXCEPT !.tasks[i].state = "done", !.tasks[i].raised = raises]
    /\ UNCHANGED <<now, users, issued, nextJti, rbac, refreshStore, accessCutoff, sessions,
                   redis, revoker, req, loc, pc, resp>>

\* handlers are subscribed, events are published and the tasks run
NextBus ==
    \/ Subscribe
    \/ \E p \in Handlers : Publish(p)
    \/ SafeCallStart
    \/ SafeCallEnd

SpecBus == Init /\ [][NextBus]_vars

(* ======================= SessionService.list_online ======================= *)
\* a soft-deleted user keeps the session
StatusPrunableNotDeleted(status) == ~status.exists \/ ~status.is_active
\* status is None, or not is_active or is_deleted
StatusPrunable(status) == ~status.exists \/ ~status.is_active \/ status.is_deleted

\* the user ids of a page of sessions
RECURSIVE PageUserIds(_)
PageUserIds(page) ==
    IF page = <<>> THEN {} ELSE {Head(page).user_id} \cup PageUserIds(Tail(page))

\* the second loop of list_online over the sessions of the page: the stores it leaves,
\* the items it has collected and removed_count
RECURSIVE ListOnlineLoop(_, _, _, _)
ListOnlineLoop(st, page, valid_status, t) ==
    IF page = <<>> THEN st
    ELSE LET s == Head(page)
             uid == s.user_id
         IN IF StatusPrunable(valid_status[uid])
            THEN ListOnlineLoop(
                   [st EXCEPT !.store = RevokeUser(st.store, uid, t),
                              !.cut = RevokeUserAccessNow(st.cut, uid, t),
                              !.sess = RemoveOnlineSession(st.sess, st.rd, uid),
                              !.rd = RemoveOnlineZset(st.rd, uid),
                              !.removed_count = st.removed_count + 1],
                   Tail(page), valid_status, t)
            ELSE ListOnlineLoop([st EXCEPT !.items = Append(st.items, s)],
                                Tail(page), valid_status, t)

\* GET /sessions/online -> SessionService.list_online(page, page_size, keyword=None)
ListOnlineRequests ==
    {[NoReq EXCEPT !.op = "list_online", !.page = g, !.page_size = z] :
        g \in {1, 2}, z \in {1, 20}} \ {[NoReq EXCEPT !.op = "list_online", !.page = 2]}

SessionServiceCall(p, r) ==
    /\ pc[p] = "idle"
    /\ pc' = [pc EXCEPT ![p] = "s_list"]
    /\ req' = [req EXCEPT ![p] = r]
    /\ loc' = [loc EXCEPT ![p] = [NoLoc EXCEPT !.at = now]]
    /\ resp' = [resp EXCEPT ![p] = NoResp]
    /\ UNCHANGED <<now, users, issued, nextJti, rbac, bus, refreshStore, accessCutoff, sessions,
                   redis, revoker>>

\* list_online_sessions(page, page_size, keyword=None): without a keyword the page
\* and the total of the store
ListOnlineSessionsKeyword(sess, rd, t, page, page_size) ==
    ListOnline(sess, rd, t, page, page_size)

\* sessions, total = await list_online_sessions(...)
SessionListOnline(p) ==
    /\ pc[p] = "s_list"
    /\ LET r == ListOnlineSessionsKeyword(sessions, redis, now, req[p].page, req[p].page_size)
       IN /\ sessions' = r.sessions
          /\ Goto(p, "s_query", [loc[p] EXCEPT !.items = r.items, !.total = r.total])
    /\ UNCHANGED <<now, users, issued, nextJti, rbac, bus, refreshStore, accessCutoff, redis,
                   revoker, req>>

\* select id, is_active, is_deleted where id in user_ids: valid_status
SessionListQuery(p) ==
    /\ pc[p] = "s_query"
    /\ Goto(p, "s_prune",
            [loc[p] EXCEPT !.valid_status =
                [u \in UserIds |-> IF u \in PageUserIds(loc[p].items) /\ users[u].exists
                                   THEN users[u] ELSE NoRow]])
    /\ UNCHANGED <<now, users, issued, nextJti, rbac, bus, refreshStore, accessCutoff, sessions,
                   redis, revoker, req>>

\* the sessions of missing, inactive and deleted users are revoked and removed, the
\* others are returned; total = max(0, total - removed_count)
SessionListPrune(p) ==
    /\ pc[p] = "s_prune"
    /\ LET st == ListOnlineLoop([store |-> refreshStore, cut |-> accessCutoff,
                                 sess |-> sessions, rd |-> redis, items |-> <<>>,
                                 removed_count |-> 0],
                                loc[p].items, loc[p].valid_status, now)
       IN /\ refreshStore' = st.store
          /\ accessCutoff' = st.cut
          /\ sessions' = st.sess
          /\ redis' = st.rd
          /\ Return(p, FALSE,
                    [NoResult EXCEPT !.items = st.items,
                                     !.total = IF st.removed_count # 0
                                               THEN Max(0, loc[p].total - st.removed_count)
                                               ELSE loc[p].total,
                                     !.success = st.removed_count])
    /\ UNCHANGED <<now, users, issued, nextJti, rbac, bus, revoker, req>>

\* sessions and stored jtis of users that are disabled, deleted and restored
PruneRequests ==
    {r \in StoreRequests :
        \/ /\ r.op = "touch" /\ r.login_at = NoLoginAt /\ r.target # "admin"
           /\ (r.ttl = NoTtl \/ r.target = "u2")
        \/ r.op = "set_jti" /\ r.target = "u1"}
\* the clock of these runs stops here
PruneMaxTime == 1

\* the online sessions are listed while users log in and are disabled or deleted
NextPrune ==
    \/ now < PruneMaxTime /\ (\A p \in Handlers : pc[p] = "idle") /\ Tick
    \/ \E u \in {"u1", "u2"} : UpdateUserActive(u, FALSE)
    \/ \E u \in {"u1"} : SoftDeleteUser(u)
    \/ \E u \in {"u2"} : HardDeleteUser(u)
    \/ \E p \in Handlers : \E r \in PruneRequests : Request(p, r, MaxIssued)
    \/ \E p \in Handlers : \E r \in ListOnlineRequests : SessionServiceCall(p, r)
    \/ \E p \in Handlers : TouchGet(p)
    \/ \E p \in Handlers : TouchUpsert(p)
    \/ \E p \in Handlers : SetUserRefreshJti(p)
    \/ \E p \in Handlers : SessionListOnline(p)
    \/ \E p \in Handlers : SessionListQuery(p)
    \/ \E p \in Handlers : SessionListPrune(p)

SpecPrune == InitStore /\ [][NextPrune]_vars

(* ======================= concurrent calls of the Redis session store ======================= *)
\* the clock of these runs stops here
RedisMaxTime == 2

\* touch_online_session and remove_online_session of one user, list_online_sessions
RegistryCalls ==
    {r \in StoreRequests :
        /\ r.op \in {"touch", "remove"} /\ r.target = "u1"
        /\ r.ttl = NoTtl /\ r.login_at = NoLoginAt}
    \cup {[NoReq EXCEPT !.op = "list"]}

\* the commands of RedisSessionStore
RegistryCommand(p) ==
    \/ RedisGetSession(p)
    \/ RedisUpsertZAdd(p)
    \/ RedisUpsertSetex(p)
    \/ RedisUpsertExpire(p)
    \/ RedisUpsertPrune(p)
    \/ RedisRemoveZRem(p)
    \/ RedisRemoveDelete(p)
    \/ RedisListZCard(p)
    \/ RedisListZRevRange(p)
    \/ RedisListGetSession(p)

\* two request handlers call the Redis session store; their commands interleave and
\* the clock advances between them
NextRedis ==
    \/ now < RedisMaxTime /\ Tick
    \/ \E p \in Procs : \E r \in RegistryCalls : Call(p, r)
    \/ \E p \in Procs : RegistryCommand(p)

SpecRedis == InitTouch /\ [][NextRedis]_vars

(* ======================= properties ======================= *)
\* the answer a Refresh of tok gets when it is handled in the current state
RefreshAccepts(tok) ==
    RefreshTokenChecks(tok, now) /\ RefreshUserOk(Get(tok.sub))

\* handler p has answered a Refresh request
RefreshDone(p) == req[p].op = "refresh" /\ resp[p].code # 0

\* C1: after a successful Refresh the response carries a refresh token other than
\* the presented one, and the presented one is rejected by a subsequent Refresh.
C1_SingleActiveRefresh ==
    \A p \in Procs :
        (RefreshDone(p) /\ resp[p].code = 200)
            => /\ resp[p].refresh_token # req[p].tok
               /\ ~RefreshAccepts(req[p].tok)

\* C2: of two Refresh calls that present the same valid token concurrently,
\* exactly one succeeds and the other is answered 401.
C2_ReplayDefense ==
    \A p \in Procs : \A q \in Procs \ {p} :
        (/\ RefreshDone(p) /\ RefreshDone(q)
         /\ req[p].tok = req[q].tok
         /\ resp[p].raced)
            => {resp[p].code, resp[q].code} = {200, 401}

\* a Refresh answered by handler p presented a token issued to its subject before
\* the subject's last revocation by operation op, and was decoded after it
RefreshAfterRevocation(p, op) ==
    LET t == req[p].tok IN
        /\ RefreshDone(p)
        /\ t \in issued /\ t.type = "refresh"
        /\ revoker[t.sub] = op
        /\ t.iat < accessCutoff[t.sub]
        /\ resp[p].at > accessCutoff[t.sub]

\* C3: a Refresh that presents a token issued before a completed Logout of its user
\* is answered 401.
C3_LogoutRevokesRefresh ==
    \A p \in Procs : RefreshAfterRevocation(p, "logout") => resp[p].code = 401

\* C4: a Kick leaves the stores as a Logout of the target would, with no session
\* record of the target, and a Refresh with a pre-kick token is answered 401.
C4_KickInvalidates ==
    [][ /\ \A p \in Procs :
              (pc[p] = "kick" /\ pc'[p] = "idle")
                  => /\ refreshStore' = RevokeUser(refreshStore, req[p].target, now)
                     /\ accessCutoff' = RevokeUserAccessNow(accessCutoff, req[p].target, now)
                     /\ sessions' = RemoveSession(sessions, req[p].target)
                     /\ ~sessions'[req[p].target].present
        /\ \A p \in Procs :
              (pc[p] = "refresh_get" /\ pc'[p] = "idle"
                 /\ req[p].tok \in issued
                 /\ revoker[req[p].tok.sub] = "kick"
                 /\ req[p].tok.iat < accessCutoff[req[p].tok.sub]
                 /\ loc[p].at > accessCutoff[req[p].tok.sub])
                  => resp'[p].code = 401
      ]_vars

\* C5: while a cutoff is recorded for a user, no access token of that user issued
\* before the cutoff authenticates a request.
C5_AccessCutoff ==
    \A t \in issued :
        (/\ t.type = "access"
         /\ accessCutoff[t.sub] # NoCutoff
         /\ t.iat < accessCutoff[t.sub])
            => GetCurrentUserCode(t, now) # 200

\* C6: a successful Login stores the jti of the refresh token it returns as the
\* current jti of the user and leaves one session record of the user.
C6_LoginStoresJti ==
    [][ \A p \in Procs :
            (pc[p] = "login" /\ pc'[p] = "idle" /\ resp'[p].code = 200)
                => /\ refreshStore'[resp'[p].refresh_token.sub].jti
                          = resp'[p].refresh_token.jti
                   /\ sessions'[resp'[p].refresh_token.sub].present
      ]_vars

\* the presented token is signed and its expiry had passed when it was decoded
ExpiredAtDecode(p) ==
    req[p].tok.ok /\ req[p].tok.exp <= resp[p].at

\* C7: a Refresh that presents a signed token whose expiry has passed is answered
\* 401 without a token and before any principal lookup.
C7_ExpiryFirst ==
    \A p \in Procs :
        (RefreshDone(p) /\ ExpiredAtDecode(p))
            => /\ resp[p].code = 401
               /\ resp[p].db_reads = 0
               /\ resp[p].access_token = NoToken
               /\ resp[p].refresh_token = NoToken

C7_Witness ==
    \E p \in Procs :
        /\ RefreshDone(p) /\ ExpiredAtDecode(p)
        /\ req[p].tok \in issued /\ req[p].tok.type = "refresh"
        /\ Get(req[p].tok.sub).is_active
        /\ resp[p].code = 401

\* the string is undecodable, lacks a subject or is not of kind refresh
NotARefreshToken(tok) ==
    ~tok.ok \/ tok.sub = NoSub \/ tok.type # "refresh"

\* C8: the step of Refresh that decodes such a string answers 401 without a token
\* and leaves the issued tokens and every store unchanged.
C8_RefreshKindOnly ==
    [][ \A p \in Procs :
            (pc[p] = "refresh_decode" /\ pc'[p] # "refresh_decode"
               /\ NotARefreshToken(req[p].tok))
                => /\ pc'[p] = "idle"
                   /\ resp'[p].code = 401
                   /\ resp'[p].access_token = NoToken
                   /\ resp'[p].refresh_token = NoToken
                   /\ issued' = issued
                   /\ stores' = stores
      ]_vars

C8_Witness ==
    \E p \in Procs :
        /\ RefreshDone(p)
        /\ req[p].tok \in issued /\ req[p].tok.type = "access"
        /\ req[p].tok.exp > resp[p].at
        /\ resp[p].code = 401

NamedBy(name) ==
    {u \in UserIds : users[u].exists /\ (Username(u) = name \/ Phone(u) = name)}

\* the credentials are wrong or name no active, undeleted principal
BadCredentials(r) ==
    \/ r.password # "good"
    \/ \A u \in NamedBy(r.username) : ~users[u].is_active \/ users[u].is_deleted

C11_LoginAllOrNothing ==
    [][ \A p \in Procs :
            (pc[p] = "login" /\ pc'[p] = "idle")
                => /\ BadCredentials(req[p])
                        => /\ issued' = issued
                           /\ stores' = stores
                           /\ resp'[p].access_token = NoToken
                           /\ resp'[p].refresh_token = NoToken
                   /\ (issued' # issued \/ stores' # stores)
                        => /\ ~BadCredentials(req[p])
                           /\ resp'[p].code = 200
      ]_vars

\* a failed Login was answered while a revocation of some user is stored
C11_Witness ==
    \E p \in Procs :
        /\ req[p].op = "login" /\ req[p].password = "bad"
        /\ resp[p].code = LoginFailureCode
        /\ resp[p].access_token = NoToken
        /\ issued # {}
        /\ \E u \in UserIds : refreshStore[u].jti = REVOKED_JTI

\* the user a Logout or Kick in progress at handler p revokes
RevokedBy(p) == IF pc[p] = "logout" THEN loc[p].sub ELSE req[p].target

\* C12: a Logout or Kick answers 200 whatever the stores hold for the user and
\* leaves the sentinel stored and no session record; applied to a user for whom that
\* already holds it changes neither the stored jti nor the registry, and applying the
\* store operations again to the state they left changes nothing; the same holds
\* for revoke_user_refresh and remove_online_session called directly.
C12_IdempotentRevocation ==
    [][ \A p \in Procs :
          /\ (pc[p] \in {"logout", "kick"} /\ pc'[p] = "idle")
                => /\ resp'[p].code = 200
                   /\ refreshStore'[RevokedBy(p)].jti = REVOKED_JTI
                   /\ ~sessions'[RevokedBy(p)].present
                   /\ ~InZset(redis', RevokedBy(p))
                   /\ RevokedAndGone(RevokedBy(p))
                        => /\ refreshStore'[RevokedBy(p)].jti = refreshStore[RevokedBy(p)].jti
                           /\ refreshStore'[RevokedBy(p)].expire_at
                                  >= refreshStore[RevokedBy(p)].expire_at
                           /\ sessions' = sessions
                           /\ redis' = redis
                   /\ RevokeUser(refreshStore', RevokedBy(p), now) = refreshStore'
                   /\ RemoveOnlineSession(sessions', redis', RevokedBy(p)) = sessions'
                   /\ RemoveOnlineZset(redis', RevokedBy(p)) = redis'
          /\ (pc[p] = "revoke" /\ pc'[p] = "idle")
                => /\ resp'[p].code = 200
                   /\ refreshStore'[req[p].target].jti = REVOKED_JTI
                   /\ RevokeUser(refreshStore', req[p].target, now) = refreshStore'
          /\ (pc[p] = "remove" /\ pc'[p] = "idle")
                => /\ resp'[p].code = 200
                   /\ ~sessions'[req[p].target].present
                   /\ ~InZset(redis', req[p].target)
                   /\ RemoveOnlineSession(sessions', redis', req[p].target) = sessions'
                   /\ RemoveOnlineZset(redis', req[p].target) = redis'
      ]_vars

\* a Kick of a user without a principal row, a stored jti or a session record that
\* had been revoked before was answered 200
C12_Witness ==
    \E p \in Procs :
        /\ req[p].op = "kick" /\ resp[p].code = 200 /\ resp[p].again
        /\ ~users[req[p].target].exists
        /\ RevokedAndGone(req[p].target)

\* the distinct ids of a list
Ids(q) == {q[i] : i \in 1..Len(q)}

\* C13: kick_users returns as success count the number of distinct ids of its list,
\* whether or not a principal exists for them, and an empty failed list; for the
\* empty list it returns (0, []) and leaves every store as it is.
C13_KickManyCount ==
    [][ \A p \in Procs :
            (pc[p] = "kicks" /\ pc'[p] = "idle")
                => /\ resp'[p].code = 200
                   /\ resp'[p].result.success = Cardinality(Ids(req[p].targets))
                   /\ resp'[p].result.failed = <<>>
                   /\ req[p].targets = <<>>
                        => /\ resp'[p].result.success = 0
                           /\ stores' = stores
      ]_vars

\* a list with a repeated id and the id of a user without a principal row was kicked
C13_Witness ==
    \E p \in Procs :
        /\ req[p].op = "kicks" /\ resp[p].code = 200
        /\ Len(req[p].targets) = 3
        /\ Ids(req[p].targets) = {"u1", "u2"}
        /\ ~users["u1"].exists
        /\ resp[p].result.success = 2
        /\ RevokedAndGone("u1") /\ RevokedAndGone("u2")

\* no bearer token, or one that is malformed, wrongly signed or expired at time t
InvalidBearer(tok, t) == tok = NoToken \/ ~tok.ok \/ tok.exp <= t

\* the bodies of the protected endpoints
EndpointSteps == {"me", "logout", "kick", "kicks"}

\* C14: a request to a protected endpoint without a bearer token, or with one that
\* is malformed, wrongly signed or expired, is answered 401 by the authentication
\* step, which changes no store and issues nothing; the body of a protected
\* endpoint only runs for a token that was valid when it was authenticated.
C14_ProtectedNeedsToken ==
    [][ \A p \in Procs :
          /\ (pc[p] = "auth" /\ pc'[p] # "auth" /\ InvalidBearer(req[p].tok, now))
                => /\ pc'[p] = "idle"
                   /\ resp'[p].code = 401
                   /\ stores' = stores
                   /\ issued' = issued
          /\ pc'[p] \in EndpointSteps => ~InvalidBearer(req'[p].tok, loc'[p].at)
      ]_vars

\* a Logout with an expired access token was answered 401 and revoked nothing
C14_Witness ==
    \E p \in Procs :
        /\ req[p].op = "logout" /\ resp[p].code = 401
        /\ req[p].tok \in issued /\ req[p].tok.type = "access"
        /\ req[p].tok.exp <= resp[p].at
        /\ Get(req[p].tok.sub).is_active
        /\ refreshStore[req[p].tok.sub].jti # REVOKED_JTI

\* page numbers below 1 and page sizes above 100
LowPages == {-2, -1, 0}
BigPageSizes == {101, 500}

\* what list_online returns: the page and the total
Returned(r) == <<r.items, r.total>>

AnyPages == {0, 1, 2, 3}
LowPageSizes == {-1, 0}

\* C16 as stated: list_online with a page size below 1 returns what
\* list_online(page, 1) returns.
C16_PageSizeClampsToOne ==
    \A page \in AnyPages : \A page_size \in LowPageSizes :
        Returned(ListOnline(sessions, redis, now, page, page_size))
            = Returned(ListOnline(sessions, redis, now, page, 1))

\* C16 amended: list_online with a page size below 1 returns what
\* list_online(page, 20) returns.
C16_PageSizeDefault ==
    \A page \in AnyPages : \A page_size \in LowPageSizes :
        Returned(ListOnline(sessions, redis, now, page, page_size))
            = Returned(ListOnline(sessions, redis, now, page, 20))

\* list_online with page size 0 returned more than one record
C16_Witness ==
    \E p \in Procs :
        /\ req[p].op = "list" /\ req[p].page_size = 0
        /\ resp[p].code = 200
        /\ Len(resp[p].result.items) > 1

\* users with a session record that has not expired at time t
LiveUsers(t) == {u \in UserIds : sessions[u].present /\ sessions[u].expire_at > t}

\* number of live records at time t whose last_seen_at is in relation Rel to x
LiveCount(t, Rel(_, _), x) ==
    Cardinality({u \in LiveUsers(t) : Rel(sessions[u].last_seen_at, x)})

AnyPageSizes == {0, 1, 2, 500}

\* items is the page (page, page_size), both already within their bounds, of the
\* records live at time t in an order of descending last_seen_at
IsPageOfLive(items, t, page, page_size) ==
    LET start == (page - 1) * page_size
        n == Cardinality(LiveUsers(t))
    IN /\ Len(items) = Max(0, Min(page_size, n - start))
       /\ \A i \in 1..Len(items) :
            /\ items[i].user_id \in LiveUsers(t)
            /\ items[i] = SessionOf(sessions, items[i].user_id)
            /\ LiveCount(t, LAMBDA a, b : a > b, items[i].last_seen_at) <= start + i - 1
            /\ LiveCount(t, LAMBDA a, b : a >= b, items[i].last_seen_at) >= start + i
       /\ \A i \in 1..Len(items) : \A j \in 1..Len(items) :
            /\ i < j => items[i].last_seen_at >= items[j].last_seen_at
            /\ i # j => items[i].user_id # items[j].user_id

\* C17: in every state of the registry list_online returns the requested page of
\* the non-expired records in descending order of last_seen_at, and as total the
\* number of non-expired records whatever page and page size are; an empty
\* registry yields ([], 0).
C17_ListOrderAndTotal ==
    \A page \in AnyPages : \A page_size \in AnyPageSizes :
        \A r \in {ListOnline(sessions, redis, now, page, page_size)} :
           /\ r.total = Cardinality(LiveUsers(now))
           /\ IsPageOfLive(r.items, now, ClampPage(page), ClampPageSize(page_size))
           /\ LiveUsers(now) = {} => Returned(r) = <<(<<>>), 0>>

\* the record of u as the registry returns it at time t, with either backend
LiveRecord(sess, rd, u, t) ==
    /\ sess[u].present /\ sess[u].expire_at > t
    /\ rd.client => (u \in ZMembers(rd, t) /\ rd.zscore[u] = sess[u].last_seen_at)

\* C18: when a touch of a user completes, the registry holds one live record of
\* the user whose last_seen_at is the time the touch read, and whose login_at is
\* the login_at argument if one was given, else the login_at of the record that
\* was live before the touch, else the time of the touch; the records of the other
\* users are as they were.
C18_TouchCreateOrUpdate ==
    [][ \A p \in Procs :
            (pc[p] = "touch_upsert" /\ pc'[p] = "idle")
                => /\ LiveRecord(sessions', redis', req[p].target, now)
                   /\ sessions'[req[p].target].last_seen_at = loc[p].at
                   /\ sessions'[req[p].target].login_at =
                        (IF req[p].login_at # NoLoginAt THEN req[p].login_at
                         ELSE IF sessions[req[p].target].present
                                 /\ sessions[req[p].target].expire_at > now
                              THEN sessions[req[p].target].login_at
                              ELSE loc[p].at)
                   /\ \A r \in {ListOnline(sessions', redis', now, 1, 100)} :
                        Cardinality({i \in 1..Len(r.items) :
                                        r.items[i].user_id = req[p].target}) = 1
                   /\ \A v \in UserIds \ {req[p].target} :
                        SessionOf(sessions', v) = SessionOf(sessions, v)
      ]_vars

\* a touch without a login_at argument refreshed a record and kept its older login_at
C18_Witness ==
    \E p \in Procs :
        /\ req[p].op = "touch" /\ req[p].login_at = NoLoginAt
        /\ resp[p].code = 200
        /\ sessions[req[p].target].present
        /\ sessions[req[p].target].last_seen_at = resp[p].at
        /\ sessions[req[p].target].login_at < resp[p].at
        /\ resp[p].at = now

\* C19: from one state to the next the last_seen_at of a live session record does
\* not decrease, however the steps of concurrent touches of the user interleave.
C19_LastSeenMonotone ==
    [][ \A u \in UserIds :
            (LiveRecord(sessions, redis, u, now) /\ sessions'[u].present)
                => sessions'[u].last_seen_at >= sessions[u].last_seen_at
      ]_vars

\* the instant at which the sentinel stored for u was written
RevokedAt(u) == refreshStore[u].expire_at - Max(1, RefreshTTL)

\* the sentinel is stored for u and no Login of u has succeeded since it was written
RevokedNoLoginSince(u) ==
    /\ refreshStore[u].jti = REVOKED_JTI
    /\ \A t \in issued : (t.type = "refresh" /\ t.sub = u) => t.iat < RevokedAt(u)

\* C20: while the sentinel is stored for a user and no Login of the user has
\* succeeded since, only a successful Login of the user replaces it, and a Refresh
\* of the user that completes is answered 401, issues nothing and leaves the
\* sentinel in place.
C20_RevocationHolds ==
    [][ \A p \in Procs :
          /\ (pc[p] = "refresh_get" /\ pc'[p] = "idle"
                /\ loc[p].sub \in UserIds /\ RevokedNoLoginSince(loc[p].sub))
                => /\ resp'[p].code = 401
                   /\ issued' = issued
                   /\ refreshStore'[loc[p].sub].jti = REVOKED_JTI
          /\ \A u \in UserIds :
                (refreshStore[u].jti = REVOKED_JTI /\ refreshStore'[u].jti # REVOKED_JTI)
                    => \E q \in Procs :
                          /\ pc[q] = "login" /\ pc'[q] = "idle"
                          /\ resp'[q].code = 200 /\ resp'[q].refresh_token.sub = u
      ]_vars

\* C21: with Redis configured, every call of a store function returns to its caller
\* and no exception of a Redis command reaches the caller; a read whose command
\* raised returns None (get_current_jti, get_session) or the empty page with total 0
\* (zcard or zrevrange of list_online).
C21_StoreFailuresNotSurfaced ==
    [][\A p \in Procs :
          /\ (pc[p] # "idle" /\ pc'[p] = "idle") => resp'[p].code = 200
          /\ (pc[p] = "c_get_jti" /\ redis.down /\ pc'[p] # pc[p])
                => resp'[p].result.jti = 0
          /\ (pc[p] = "c_get_session" /\ redis.down /\ pc'[p] # pc[p])
                => (pc'[p] = "c_zadd" /\ loc'[p].existing = NoLoginAt)
          /\ (pc[p] \in {"c_zcard", "c_zrevrange"} /\ redis.down /\ pc'[p] # pc[p])
                => (resp'[p].result.items = <<>> /\ resp'[p].result.total = 0)
          /\ (pc[p] = "c_list_get" /\ redis.down /\ pc'[p] = "idle")
                => resp'[p].result.items = loc[p].items
      ]_vars

\* a touch has returned although the setex of the session key raised
C21_Witness ==
    /\ redis.down
    /\ \E p \in Handlers :
          /\ req[p].op = "touch"
          /\ resp[p].code = 200
          /\ resp[p].raised
          /\ InZset(redis, req[p].target)
          /\ ~sessions[req[p].target].present

\* what get_user_refresh_jti(u) returns when it is called in the current state
ReadJti(u) == IF redis.down THEN 0 ELSE RedisGet(refreshStore, u, now)

\* what get_session(u) returns a session for when it is called in the current state
ReadSession(u) == ~redis.down /\ RedisGetSessionFound(sessions, u, now)

\* handler p has just returned from a call of the store mutation op
Mutated(p, op) ==
    pc[p] = "idle" /\ req[p].op = op /\ resp[p].code = 200 /\ resp[p].at = now

\* C22: when a store mutation has returned, with or without the Redis server, a read
\* that follows it observes it: get_current_jti returns the jti just set or the
\* sentinel just written, a touched session is returned by get_session and a
\* removed one is not.
C22_DegradationKeepsMutation ==
    \A p \in Handlers :
        /\ Mutated(p, "set_jti") => ReadJti(req[p].target) = req[p].jti
        /\ Mutated(p, "revoke") => ReadJti(req[p].target) = REVOKED_JTI
        /\ Mutated(p, "touch") => ReadSession(req[p].target)
        /\ Mutated(p, "remove") => ~ReadSession(req[p].target)

\* C23: while the sentinel written by a Logout or Kick is the stored entry of a user,
\* at every instant at which a refresh token issued to the user up to the revocation
\* is unexpired, the sentinel entry has not lapsed.
C23_RevocationOutlivesTokens ==
    \A t \in issued :
        (/\ t.type = "refresh"
         /\ refreshStore[t.sub].jti = REVOKED_JTI
         /\ accessCutoff[t.sub] # NoCutoff
         /\ t.iat <= accessCutoff[t.sub]
         /\ JwtDecode(t, now))
            => refreshStore[t.sub].expire_at > now

\* the last instant before a token signed at the instant of the revocation expires
C23_Witness ==
    \E t \in issued :
        /\ t.type = "refresh"
        /\ refreshStore[t.sub].jti = REVOKED_JTI
        /\ t.iat = accessCutoff[t.sub]
        /\ JwtDecode(t, now)
        /\ t.exp = now + 1
        /\ refreshStore[t.sub].expire_at = t.exp

\* handler p has validated a token
Validated(p) == pc[p] = "idle" /\ req[p].op = "csrf_validate" /\ resp[p].code = 200

\* the subject embedded in a token: the parts between the timestamp and the signature
Embedded(token) == SubSeq(token, 3, Len(token) - 1)

\* the last part of the token is the HMAC under the server secret of the parts
\* before it: nonce, timestamp and embedded subject
SignatureMatches(token) ==
    /\ Len(token) >= 3
    /\ token[2].k = "num"
    /\ token[Len(token)] = Digest(SecretKey, SubSeq(token, 1, Len(token) - 1))

\* handler q generated the token for subject
GeneratedFor(q, token, subject) ==
    /\ req[q].op = "csrf_generate"
    /\ resp[q].code = 200
    /\ req[q].subject = subject
    /\ resp[q].result.csrf = token

\* C24: validate_csrf_token(token, M, S) returns true only if the signature matches
\* nonce, timestamp and embedded subject, ts <= now + 60 and now - ts <= M; with a
\* subject S required, a token without embedded subject or with another one is
\* rejected; and a token that generate_csrf_token(S) produced validates with the
\* same S while its age is within M.
C24_CsrfWindowAndBinding ==
    \A p \in Procs :
        Validated(p) =>
            LET k == req[p].csrf
                M == req[p].max_age
                S == req[p].subject
                t == resp[p].at
                valid == resp[p].result.valid
            IN /\ valid => /\ SignatureMatches(k)
                           /\ M # NoMaxAge => (k[2].n <= t + ClockSkew /\ t - k[2].n <= M)
               /\ (S # NoSubject /\ Embedded(k) # S) => ~valid
               /\ (/\ \E q \in Procs : GeneratedFor(q, k, S)
                   /\ (M = NoMaxAge \/ t - k[2].n <= M))
                     => valid

\* handler p is in a RoleService / MenuService mutation
Mutating(p) == req[p].op \in RoleMutations \cup MenuMutations

NewTasks == SubSeq(bus'.tasks, Len(bus.tasks) + 1, Len(bus'.tasks))
\* the number of the elements of the sequence q that satisfy handler = h
RECURSIVE CountHandler(_, _)
CountHandler(q, h) ==
    IF q = <<>> THEN 0
    ELSE (IF Head(q).handler = h THEN 1 ELSE 0) + CountHandler(Tail(q), h)
\* the handlers subscribed to the event type t
SubscribedTo(t) == {bus.handlers[t][i] : i \in 1..Len(bus.handlers[t])}
\* a publish is answered in this step
Publishing(p) == pc[p] = "idle" /\ bus'.published = bus.published + 1 /\ req'[p].op = "publish"

\* C26 as stated: publish starts exactly one invocation of every handler subscribed
\* to the exact type of the event and none of any other handler.
C26_OneInvocationPerHandler ==
    [][\A p \in Handlers : Publishing(p) =>
          \A h \in EventHandlers :
              CountHandler(NewTasks, h)
                  = (IF h \in SubscribedTo(req'[p].username) THEN 1 ELSE 0)]_vars

\* C26: publish creates exactly one invocation for every subscription to the exact
\* type of the event, in the order of the subscriptions, and none for the subscriptions
\* to other types (none at all without a subscriber); the publisher gets no exception;
\* a handler that raises leaves every other task as it was, still able to run.
C26_HandlerIsolation ==
    [][/\ \A p \in Handlers : Publishing(p) =>
             /\ Len(NewTasks) = Len(bus.handlers[req'[p].username])
             /\ \A i \in 1..Len(NewTasks) :
                   /\ NewTasks[i].handler = bus.handlers[req'[p].username][i]
                   /\ NewTasks[i].event = bus'.published
                   /\ NewTasks[i].state = "pending"
             /\ SubSeq(bus'.tasks, 1, Len(bus.tasks)) = bus.tasks
             /\ resp'[p].code = 200 /\ ~resp'[p].raised
       /\ \A i \in 1..Len(bus.tasks) :
             (Len(bus'.tasks) = Len(bus.tasks) /\ bus'.tasks[i].raised /\ ~bus.tasks[i].raised)
                 => /\ \A j \in 1..Len(bus.tasks) : j # i => bus'.tasks[j] = bus.tasks[j]
                    /\ UNCHANGED <<pc, resp>>]_vars

\* an event with two subscribers was published with a subscription to another type
\* in place; one of its handlers raised and the other ran to its end
C26_Witness ==
    \E i, j \in 1..Len(bus.tasks) :
        /\ i # j
        /\ bus.tasks[i].event = bus.tasks[j].event
        /\ bus.tasks[i].type = "OperationLogEvent"
        /\ bus.handlers["Event"] # <<>>
        /\ bus.tasks[i].state = "done" /\ bus.tasks[i].raised
        /\ bus.tasks[j].state = "done" /\ ~bus.tasks[j].raised

\* C27: get_current_user never authenticates a request whose bearer token is a
\* refresh token: the authentication step answers it 401 and the body of no
\* protected endpoint runs for it.
C27_RefreshTokenNotBearer ==
    [][\A p \in Procs :
          (/\ pc[p] = "auth" /\ pc'[p] # "auth"
           /\ req[p].tok \in issued /\ req[p].tok.type = "refresh")
              => pc'[p] = "idle" /\ resp'[p].code = 401]_vars

\* the row says that the user exists, is active and is not deleted
ValidUser(row) == row.exists /\ row.is_active /\ ~row.is_deleted
\* the session record of u that the store returns at time t (NoSession: none)
LiveSession(sess, u, t) ==
    IF sess[u].present /\ sess[u].expire_at > t THEN [sess[u] EXCEPT !.pos = 0]
    ELSE NoSession
\* the users of the page of handler p that its query found missing, inactive or deleted
InvalidOnPage(p) ==
    {u \in PageUserIds(loc[p].items) : ~ValidUser(loc[p].valid_status[u])}

WriteSteps ==
    {"c_zadd", "c_setex_session", "c_expire", "c_zremrangebyscore", "c_zrem", "c_delete"}
\* no upsert or remove is in progress
NoWriteInProgress == \A p \in Procs : pc[p] \notin WriteSteps

\* C29: with the Redis session store, whenever no upsert or remove is in progress a
\* user id is a member of the online sorted set if and only if the session key of
\* that user exists, however the commands of concurrent upserts and removes of the
\* same user interleave.
C29_ZsetMatchesSessionKeys ==
    NoWriteInProgress
        => \A u \in UserIds :
              (u \in ZMembers(redis, now)) <=> RedisGetSessionFound(sessions, u, now)

\* handler q has completed a remove of user u and has not been called since
Removed(q, u) ==
    /\ req[q].op = "remove" /\ req[q].target = u
    /\ pc[q] = "idle" /\ resp[q].code = 200 /\ ~resp[q].raised

\* C30: once a remove of a user has completed, the registry holds no record of that
\* user that was written by a touch started before the removal completed: a record or
\* a sorted-set member found afterwards was last seen at or after the removal.
C30_RemovedNotResurrected ==
    \A q \in Procs : \A u \in UserIds :
        Removed(q, u)
            => /\ RedisGetSessionFound(sessions, u, now)
                    => sessions[u].last_seen_at >= resp[q].at
               /\ u \in ZMembers(redis, now) => redis.zscore[u] >= resp[q].at
====
